---- MODULE Spec2Model ----
(***************************************************************************)
(* Model of the ai-cli command line client (src/index.ts, src/args.ts).    *)
(*                                                                         *)
(* The first part models the streaming code-block scanner: printStream and *)
(* highlightCode (src/index.ts:1037-1052 and 1148-1199), under Spec.  The  *)
(* second part models the invocations of the command: the argument parser  *)
(* (src/args.ts), processAiCommand, genStreamResponse and main             *)
(* (src/index.ts:918-964, 1054-1146, 1201-1205) and the conversation store *)
(* (src/unnamed/part_002), under SpecCli.                                  *)
(*                                                                         *)
(* Text is a sequence of one-character strings.  Indices passed to the     *)
(* string helpers are 0-based, as in JavaScript.  The alphabet is ASCII,   *)
(* so TextDecoder.decode maps every byte of a fragment to one character    *)
(* and a fragment is modelled by its decoded text.                         *)
(***************************************************************************)
EXTENDS Integers, Sequences, FiniteSets, TLC

\* BT stands for the backtick character (U+0060), NL for the line feed
BT == "^"
NL == "\n"

\* src/index.ts:984-985
NEWLINE == <<NL>>
CODE_BLOCK_MD == <<BT, BT, BT>>

(***************************************************************************)
(* Bounds of the model.                                                    *)
(***************************************************************************)
\* longest response text of the exhaustive family
MaxLen == 6
\* greatest number of fragments the stream delivers a response in
MaxFrags == 2

Alphabet == {BT, NL, "c"}

Min(S) == CHOOSE x \in S : \A y \in S : x <= y
Max(S) == CHOOSE x \in S : \A y \in S : x >= y

(***************************************************************************)
(* JavaScript string and array operations used by the scanner.             *)
(***************************************************************************)
\* s.slice(i, j) for 0 <= i and 0 <= j
Slice(s, i, j) == SubSeq(s, i + 1, IF j > Len(s) THEN Len(s) ELSE j)

\* s.slice(i)
SliceFrom(s, i) == Slice(s, i, Len(s))

\* s.indexOf(pat, from): the least index >= from where pat occurs, or -1
IndexOf(s, pat, from) ==
    LET hits == {i \in from..(Len(s) - Len(pat)) : SubSeq(s, i + 1, i + Len(pat)) = pat}
    IN  IF hits = {} THEN -1 ELSE Min(hits)

\* s.lastIndexOf(pat): the greatest index where pat occurs, or -1
LastIndexOf(s, pat) ==
    LET hits == {i \in 0..(Len(s) - Len(pat)) : SubSeq(s, i + 1, i + Len(pat)) = pat}
    IN  IF hits = {} THEN -1 ELSE Max(hits)

\* s.includes(pat)
Includes(s, pat) == IndexOf(s, pat, 0) # -1

\* s.startsWith(pat)
StartsWith(s, pat) == Len(s) >= Len(pat) /\ SubSeq(s, 1, Len(pat)) = pat

\* s.split(NEWLINE): the lines of s, always at least one
RECURSIVE Split(_)
Split(s) ==
    LET i == IndexOf(s, NEWLINE, 0)
    IN  IF i = -1 THEN <<s>>
        ELSE <<Slice(s, 0, i)>> \o Split(SliceFrom(s, i + Len(NEWLINE)))

\* lines.join(NEWLINE)
RECURSIVE Join(_)
Join(lines) ==
    IF Len(lines) = 0 THEN <<>>
    ELSE IF Len(lines) = 1 THEN lines[1]
    ELSE lines[1] \o NEWLINE \o Join(Tail(lines))

\* mutants of Interior: lines.slice(1) keeps the last element,
\* lines.slice(0, -1) keeps the first
MutInteriorKeepLast(lines) == SubSeq(lines, 2, Len(lines))

MutInteriorKeepFirst(lines) == SubSeq(lines, 1, Len(lines) - 1)

\* lines.slice(1, -1): all but the first and the last element
Interior(lines) == SubSeq(lines, 2, Len(lines) - 1)

(***************************************************************************)
(* Styled text.  A string handed to process.stdout.write is a sequence of  *)
(* runs; a run is text together with the styling applied to it:            *)
(*   plain  no markup,                                                     *)
(*   dim    wrapped by chalk.dim,                                          *)
(*   hl     the result of highlight (cli-highlight) for language lang.     *)
(***************************************************************************)
PlainRun(s) == [st |-> "plain", lang |-> <<>>, s |-> s]
DimRun(s) == [st |-> "dim", lang |-> <<>>, s |-> s]
HlRun(language, s) == [st |-> "hl", lang |-> language, s |-> s]

\* cli-highlight: the languages the highlighter knows (c is a language of
\* highlight.js; the empty tag and a are not)
SupportedLanguages == {<<"c">>}
\* mutant of supportsLanguage: every tag counts as a known language
MutSupportsLanguage(language) == TRUE

supportsLanguage(language) == language \in SupportedLanguages

\* src/index.ts:1037-1052
highlightCode(text) ==
    IF ~StartsWith(text, CODE_BLOCK_MD) THEN <<PlainRun(text)>>
    ELSE
    LET lines == Split(text)
        firstLine == lines[1]
    IN  IF firstLine = <<>> THEN <<PlainRun(text)>>
        ELSE
        LET language == IF Len(firstLine) > 3 THEN SliceFrom(firstLine, 3) ELSE <<>>
            code == Join(Interior(lines))
            highlightedCode == IF supportsLanguage(language)
                               THEN HlRun(language, code)
                               ELSE PlainRun(code)
        IN  <<DimRun(CODE_BLOCK_MD)>>
            \o (IF language # <<>> THEN <<DimRun(language)>> ELSE <<>>)
            \o <<PlainRun(NEWLINE), highlightedCode, PlainRun(NEWLINE),
                 DimRun(CODE_BLOCK_MD)>>

(***************************************************************************)
(* State of one printStream call.                                          *)
(*   input         the whole response text the stream will deliver         *)
(*   received      the text delivered so far (concatenation of fragments)  *)
(*   nfrags        number of fragments delivered so far                    *)
(*   cutInMarker   some fragment boundary fell inside a marker of input    *)
(*   buffer, fullResponse   the locals of printStream                      *)
(*   writes        the arguments of process.stdout.write, in call order    *)
(*   spans         for each write, the span <<from, to>> of stream         *)
(*                 positions that the written text was taken from          *)
(*   off           stream position of the first character of buffer        *)
(*   pc            reading inside the loop, done after the return          *)
(***************************************************************************)
VARIABLES input, received, nfrags, cutInMarker, buffer, fullResponse,
          writes, spans, off, pc

(***************************************************************************)
(* The state of one invocation of the command outside printStream, and the *)
(* conversation store, which is the only state that outlives a process.    *)
(*   env            which environment variables are set                    *)
(*   db             the three tables of the store, rows in insertion order *)
(*   db0            the store as it was when the invocation was launched   *)
(*   now            the clock that new Date() reads                        *)
(*   argv           the command line arguments                             *)
(*   parsed         what the command line says: parseArgs of argv, kept    *)
(*                  for the properties; the process does not read it       *)
(*   phase          position of the process inside processAiCommand        *)
(*   options, prompt   what parseArgs returned                             *)
(*   conversationId    the local variable of processAiCommand              *)
(*   calls          the requests given to streamText, in order             *)
(*   storeOps       the calls of the store functions, in order             *)
(*   console        what the orchestrator logged, in order                 *)
(*   response       ok, notok, nobody: what the response object looks like *)
(*   error          the value the invocation threw, or NoError             *)
(*   exitStatus     exit status of the process, -1 while it runs           *)
(*   invocations    how many invocations were launched so far              *)
(*   lastConv       conversation used by the latest earlier invocation     *)
(*                  that ran in general mode, NoConv when there is none    *)
(*   searchedSince  a web search was sent to its provider after lastConv   *)
(*                  was used                                               *)
(*   clean          every invocation that has ended ran in general mode    *)
(*                  and returned without an error                          *)
(***************************************************************************)
VARIABLES env, db, db0, now, argv, parsed, phase, options, prompt, conversationId,
          calls, storeOps, console, response, error, exitStatus,
          invocations, lastConv, searchedSince, clean

(***************************************************************************)
(* The callers of the store when its statements are followed one by one.   *)
(*   callers   for each process, where it is inside saveMessage, with the  *)
(*             argument, the conversation id and the time it works with    *)
(*   ended     the number of saveMessage calls that have ended             *)
(*   lastCall  the call that ended last, with its argument, what it        *)
(*             returned, and the store as it found and as it left it       *)
(*   solo      no two calls have overlapped so far                         *)
(***************************************************************************)
VARIABLES callers, ended, lastCall, solo

storeVars == <<callers, ended, lastCall, solo>>

(***************************************************************************)
(* The data directory and the getDb calls when getDb is followed step by   *)
(* step.                                                                   *)
(*   dataDir   missing or present: the directory .ai-cli under HOME        *)
(*   mkdirs    the mkdir calls that were started and have not completed    *)
(*   opening   where the getDb call under way stands: idle, path, open     *)
(*   opens     the getDb calls that have ended, in order, each with        *)
(*             whether it found the directory missing and whether the      *)
(*             database was opened                                         *)
(***************************************************************************)
VARIABLES dataDir, mkdirs, opening, opens

fsVars == <<dataDir, mkdirs, opening, opens>>

streamVars == <<input, received, nfrags, cutInMarker, buffer, fullResponse,
                writes, spans, off, pc>>

cliVars == <<env, db, db0, now, argv, parsed, phase, options, prompt, conversationId,
             calls, storeOps, console, response, error, exitStatus,
             invocations, lastConv, searchedSince, clean>>

vars == <<input, received, nfrags, cutInMarker, buffer, fullResponse,
          writes, spans, off, pc, cliVars, storeVars, fsVars>>

RECURSIVE TextsOfLen(_)
TextsOfLen(n) ==
    IF n = 0 THEN {<<>>}
    ELSE {<<ch>> \o t : ch \in Alphabet, t \in TextsOfLen(n - 1)}

Texts == UNION {TextsOfLen(n) : n \in 0..MaxLen}

(***************************************************************************)
(* Response texts built around well-formed fenced blocks: an opening       *)
(* marker followed by a language tag on a line of its own, the payload     *)
(* lines, and a closing marker on a line of its own.                       *)
(***************************************************************************)
Tags == {<<>>, <<"c">>, <<"a">>}

\* payloads, each a sequence of lines
Payloads == {<<>>, <<<<"c">>>>, <<<<"a">>, <<BT>>>>}

\* plain text without a marker
PlainTexts == {<<>>, <<"a">>, <<BT>>}

RECURSIVE Lines(_)
Lines(ls) == IF ls = <<>> THEN <<>> ELSE Head(ls) \o NEWLINE \o Lines(Tail(ls))

Block(tag, payload) ==
    CODE_BLOCK_MD \o tag \o NEWLINE \o Lines(payload) \o CODE_BLOCK_MD

Blocks == {Block(t, p) : t \in Tags, p \in Payloads}

OneBlockTexts == {a \o b1 \o c : a \in PlainTexts, b1 \in Blocks, c \in PlainTexts}

\* the blocks with at most one payload line
ShortBlocks == {Block(t, p) : t \in Tags, p \in {q \in Payloads : Len(q) <= 1}}

TwoBlockTexts ==
    {a \o b1 \o b \o b2 \o c :
        a \in PlainTexts, b1 \in ShortBlocks, b \in PlainTexts, b2 \in ShortBlocks,
        c \in PlainTexts}

\* blocks whose closing marker shares its line with payload text
InlineCloseTexts ==
    {CODE_BLOCK_MD \o t \o NEWLINE \o <<"c">> \o CODE_BLOCK_MD : t \in Tags}

\* fences that are opened and never closed
OpenFenceTexts ==
    {a \o CODE_BLOCK_MD \o t \o NEWLINE \o <<"c">> : a \in PlainTexts, t \in Tags}

Inputs == Texts \cup OneBlockTexts \cup TwoBlockTexts \cup InlineCloseTexts
          \cup OpenFenceTexts

(***************************************************************************)
(* Values of the orchestrator that the initial states refer to.            *)
(***************************************************************************)
\* the JavaScript value undefined where a text is expected; interpolated
\* into a template literal it reads undefined
Undefined == <<"undefined">>

\* no conversation id (undefined, which is falsy)
NoConv == 0

NoError == "none"

\* the three tables that getDb creates, without rows
EmptyDb == [conversations |-> <<>>, messages |-> <<>>, current |-> <<>>]

\* getDefaultOptions over OPTIONS_CONFIG
DefaultOptions ==
    [help |-> FALSE, url |-> <<>>, search |-> FALSE, version |-> FALSE,
     new |-> FALSE]

\* the processes that may use the store at the same time
Procs == {1, 2}

\* the argument of a process that is not inside saveMessage
NoArgs ==
    [conversationId |-> 0, role |-> "user", content |-> <<>>,
     createNewConversation |-> FALSE]

\* a process that is not inside a store function
Idle ==
    [pc |-> "idle", o |-> NoArgs, id |-> 0, t |-> 0,
     before |-> [conversations |-> <<>>, messages |-> <<>>, current |-> <<>>]]

\* what is kept of a call c that has ended and left the store as d; a call
\* that threw has returned nothing
Ended(c, d, ok) ==
    [o |-> c.o, id |-> IF ok THEN c.id ELSE 0, ok |-> ok,
     before |-> c.before, after |-> d, at |-> c.t]

\* the data directory is there and getDb is not being followed
DirectoryReady ==
    /\ dataDir = "present"
    /\ mkdirs = 0
    /\ opening = "idle"
    /\ opens = <<>>

\* nobody is inside the store and nobody was
NoStoreCalls ==
    /\ callers = [p \in Procs |-> Idle]
    /\ ended = 0
    /\ lastCall = Ended(Idle, Idle.before, FALSE)
    /\ solo = TRUE

\* printStream studied on its own: a response body is being read and the
\* rest of the process does not move
BodyOnly ==
    /\ env = [ANTHROPIC_API_KEY |-> TRUE, PERPLEXITY_API_KEY |-> TRUE,
              HOME |-> TRUE, DATA_DIR |-> "usable"]
    /\ db = EmptyDb
    /\ db0 = EmptyDb
    /\ now = 0
    /\ argv = <<>>
    /\ parsed = [prompt |-> <<>>, options |-> DefaultOptions, error |-> NoError]
    /\ phase = "stream"
    /\ options = DefaultOptions
    /\ prompt = <<>>
    /\ conversationId = NoConv
    /\ calls = <<>>
    /\ storeOps = <<>>
    /\ console = <<>>
    /\ response = "ok"
    /\ error = NoError
    /\ exitStatus = -1
    /\ invocations = 0
    /\ lastConv = NoConv
    /\ searchedSince = FALSE
    /\ clean = TRUE
    /\ NoStoreCalls
    /\ DirectoryReady

\* src/index.ts:1149-1151
Init ==
    /\ BodyOnly
    /\ input \in Inputs
    /\ received = <<>>
    /\ nfrags = 0
    /\ cutInMarker = FALSE
    /\ buffer = <<>>
    /\ fullResponse = <<>>
    /\ writes = <<>>
    /\ spans = <<>>
    /\ off = 0
    /\ pc = "reading"

\* mutant of ScanBlocks: the buffer is cut at the closing marker instead of
\* after it (buffer.slice(end)), so the marker stays in the buffer
RECURSIVE MutScanBlocks(_)
MutScanBlocks(st) ==
    IF ~Includes(st.buffer, CODE_BLOCK_MD) THEN st
    ELSE
    LET start == IndexOf(st.buffer, CODE_BLOCK_MD, 0)
        end == IndexOf(st.buffer, CODE_BLOCK_MD, start + Len(CODE_BLOCK_MD))
    IN  IF end = -1 THEN st
        ELSE
        LET codeBlock == Slice(st.buffer, start, end + Len(CODE_BLOCK_MD))
        IN  MutScanBlocks(
              [buffer |-> SliceFrom(st.buffer, end),
               off    |-> st.off + end,
               writes |-> st.writes
                          \o <<<<PlainRun(Slice(st.buffer, 0, start))>>,
                               highlightCode(codeBlock)>>,
               spans  |-> st.spans
                          \o <<<<st.off, st.off + start>>,
                               <<st.off + start,
                                 st.off + end + Len(CODE_BLOCK_MD)>>>>])

\* src/index.ts:1172-1175: where the closing marker is looked for and found,
\* -1 when there is none
ScanEnd(b) ==
    IndexOf(b, CODE_BLOCK_MD, IndexOf(b, CODE_BLOCK_MD, 0) + Len(CODE_BLOCK_MD))

\* src/index.ts:1170 and 1177: the loop goes into another iteration
ScanGoesOn(b) == Includes(b, CODE_BLOCK_MD) /\ ScanEnd(b) # -1

\* mutant of ScanIteration: the buffer is cut at the closing marker
\* instead of after it
MutScanIterationKeepsClosing(st, start, end) ==
    [buffer |-> SliceFrom(st.buffer, end),
     off    |-> st.off + end,
     writes |-> st.writes
                \o <<<<PlainRun(Slice(st.buffer, 0, start))>>,
                     highlightCode(Slice(st.buffer, start,
                                         end + Len(CODE_BLOCK_MD)))>>,
     spans  |-> st.spans
                \o <<<<st.off, st.off + start>>,
                     <<st.off + start, st.off + end + Len(CODE_BLOCK_MD)>>>>]

\* src/index.ts:1179-1187: the iteration that found a block between start
\* and end, on st = [buffer, off, writes, spans]
ScanIteration(st, start, end) ==
    [buffer |-> SliceFrom(st.buffer, end + Len(CODE_BLOCK_MD)),
     off    |-> st.off + end + Len(CODE_BLOCK_MD),
     writes |-> st.writes
                \o <<<<PlainRun(Slice(st.buffer, 0, start))>>,
                     highlightCode(Slice(st.buffer, start,
                                         end + Len(CODE_BLOCK_MD)))>>,
     spans  |-> st.spans
                \o <<<<st.off, st.off + start>>,
                     <<st.off + start, st.off + end + Len(CODE_BLOCK_MD)>>>>]

\* the inner loop of printStream, src/index.ts:1170-1188, on
\* st = [buffer, off, writes, spans]
RECURSIVE ScanBlocks(_)
ScanBlocks(st) ==
    IF ScanGoesOn(st.buffer)
    THEN ScanBlocks(ScanIteration(st, IndexOf(st.buffer, CODE_BLOCK_MD, 0),
                                  ScanEnd(st.buffer)))
    ELSE st

\* src/index.ts:1190-1195
FlushPlain(st) ==
    IF LastIndexOf(st.buffer, CODE_BLOCK_MD) = -1
    THEN [buffer |-> <<>>,
          off    |-> st.off + Len(st.buffer),
          writes |-> Append(st.writes, <<PlainRun(st.buffer)>>),
          spans  |-> Append(st.spans, <<st.off, st.off + Len(st.buffer)>>)]
    ELSE st

\* a boundary at stream position p lies inside an occurrence of the marker
InsideMarker(text, p) ==
    \E i \in 0..(Len(text) - Len(CODE_BLOCK_MD)) :
        /\ Slice(text, i, i + Len(CODE_BLOCK_MD)) = CODE_BLOCK_MD
        /\ i < p
        /\ p < i + Len(CODE_BLOCK_MD)

\* one iteration of the read loop with done = false, src/index.ts:1154-1195
ProcessChunk(chunk) ==
    LET st == FlushPlain(ScanBlocks([buffer |-> buffer \o chunk,
                                     off    |-> off,
                                     writes |-> writes,
                                     spans  |-> spans]))
    IN  /\ fullResponse' = fullResponse \o chunk
        /\ buffer' = st.buffer
        /\ off' = st.off
        /\ writes' = st.writes
        /\ spans' = st.spans

\* reader.read() resolves with the next fragment of the response
ReadChunk ==
    /\ pc = "reading"
    /\ nfrags < MaxFrags
    /\ \E n \in 1..(Len(input) - Len(received)) :
        \* the last fragment the bound allows delivers the rest of the text
        /\ (nfrags + 1 = MaxFrags) => (Len(received) + n = Len(input))
        /\ ProcessChunk(SubSeq(input, Len(received) + 1, Len(received) + n))
        /\ received' = received \o SubSeq(input, Len(received) + 1, Len(received) + n)
        /\ cutInMarker' = (cutInMarker \/ InsideMarker(input, Len(received) + n))
    /\ nfrags' = nfrags + 1
    /\ UNCHANGED <<input, pc>>

\* the iteration of the read loop with done = true, src/index.ts:1154-1163,
\* and the return, src/index.ts:1198
ReadDone ==
    /\ pc = "reading"
    /\ received = input
    /\ IF buffer # <<>>
       THEN /\ writes' = writes \o <<highlightCode(buffer), <<PlainRun(NEWLINE)>>>>
            /\ spans' = spans \o <<<<off, off + Len(buffer)>>,
                                   <<off + Len(buffer), off + Len(buffer)>>>>
            /\ fullResponse' = fullResponse \o buffer
       ELSE /\ writes' = Append(writes, <<PlainRun(NEWLINE)>>)
            /\ spans' = Append(spans, <<off, off>>)
            /\ fullResponse' = fullResponse
    /\ pc' = "done"
    /\ UNCHANGED <<input, received, nfrags, cutInMarker, buffer, off>>

Next ==
    \/ ReadChunk /\ UNCHANGED <<cliVars, storeVars, fsVars>>
    \/ ReadDone /\ UNCHANGED <<cliVars, storeVars, fsVars>>

Spec == Init /\ [][Next]_vars

(***************************************************************************)
(* The inner loop of printStream iteration by iteration, src/index.ts      *)
(* lines 1170-1188, entered with a buffer put together from markers,       *)
(* single backticks, letters and newlines.  input keeps the buffer as it   *)
(* was when the loop was entered.                                          *)
(***************************************************************************)
MaxPieces == 5

Pieces == {CODE_BLOCK_MD, <<BT>>, <<"c">>, <<NL>>}

\* the texts of at most n pieces
RECURSIVE PieceTexts(_)
PieceTexts(n) ==
    IF n = 0 THEN {<<>>}
    ELSE {<<>>} \cup {piece \o t : piece \in Pieces, t \in PieceTexts(n - 1)}

InitScan ==
    /\ BodyOnly
    /\ input = <<>>
    /\ buffer = <<>>
    /\ received = <<>>
    /\ nfrags = 0
    /\ cutInMarker = FALSE
    /\ fullResponse = <<>>
    /\ writes = <<>>
    /\ spans = <<>>
    /\ off = 0
    /\ pc = "reading"

\* lines 1165-1170: a fragment has been added to the buffer and the loop is
\* entered
ScanEnter ==
    /\ pc = "reading"
    /\ input' \in PieceTexts(MaxPieces)
    /\ buffer' = input'
    /\ received' = input'
    /\ fullResponse' = input'
    /\ nfrags' = 1
    /\ pc' = "scanning"
    /\ UNCHANGED <<cutInMarker, writes, spans, off>>

\* the state of the loop as the operators of the scanner take it
ScanState == [buffer |-> buffer, off |-> off, writes |-> writes, spans |-> spans]

\* lines 1170-1187: an iteration that finds a block and cuts it off
ScanStep ==
    /\ pc = "scanning"
    /\ ScanGoesOn(buffer)
    /\ buffer' = ScanIteration(ScanState, IndexOf(buffer, CODE_BLOCK_MD, 0),
                               ScanEnd(buffer)).buffer
    /\ off' = ScanIteration(ScanState, IndexOf(buffer, CODE_BLOCK_MD, 0),
                            ScanEnd(buffer)).off
    /\ writes' = ScanIteration(ScanState, IndexOf(buffer, CODE_BLOCK_MD, 0),
                               ScanEnd(buffer)).writes
    /\ spans' = ScanIteration(ScanState, IndexOf(buffer, CODE_BLOCK_MD, 0),
                              ScanEnd(buffer)).spans
    /\ UNCHANGED <<input, received, nfrags, cutInMarker, fullResponse, pc>>

\* lines 1170 and 1177: the loop is left
ScanExit ==
    /\ pc = "scanning"
    /\ ~ScanGoesOn(buffer)
    /\ pc' = "scanned"
    /\ UNCHANGED <<input, received, nfrags, cutInMarker, buffer, fullResponse,
                   writes, spans, off>>

NextScan ==
    \/ ScanEnter /\ UNCHANGED <<cliVars, storeVars, fsVars>>
    \/ ScanStep /\ UNCHANGED <<cliVars, storeVars, fsVars>>
    \/ ScanExit /\ UNCHANGED <<cliVars, storeVars, fsVars>>

SpecScan == InitScan /\ [][NextScan]_vars

(***************************************************************************)
(* What the terminal shows.                                                *)
(***************************************************************************)
RECURSIVE Concat(_)
Concat(ss) == IF ss = <<>> THEN <<>> ELSE Head(ss) \o Concat(Tail(ss))

\* the characters of a run, each with the styling of the run
StyledChars(run) == [j \in 1..Len(run.s) |-> <<run.st, run.lang, run.s[j]>>]

\* the total terminal output of a sequence of writes
Output(ws) == Concat([k \in 1..Len(Concat(ws)) |-> StyledChars(Concat(ws)[k])])

\* the terminal output with the styling markup removed
Destyled(ws) == Concat([k \in 1..Len(Concat(ws)) |-> Concat(ws)[k].s])

\* a write that puts no character on the terminal
IsEmptyWrite(w) == \A i \in 1..Len(w) : w[i].s = <<>>

IsVisibleWrite(w) == ~IsEmptyWrite(w)

\* the writes that put something on the terminal
Printed(ws) == SelectSeq(ws, IsVisibleWrite)

\* a write without styling
IsPlainWrite(w) == \A i \in 1..Len(w) : w[i].st = "plain"

\* the writes printStream makes when text arrives as one fragment (none
\* when text is empty) and the stream then ends
WholeWrites(text) ==
    LET st == IF text = <<>>
              THEN [buffer |-> <<>>, off |-> 0, writes |-> <<>>, spans |-> <<>>]
              ELSE FlushPlain(ScanBlocks([buffer |-> text, off |-> 0,
                                          writes |-> <<>>, spans |-> <<>>]))
    IN  IF st.buffer # <<>>
        THEN st.writes \o <<highlightCode(st.buffer), <<PlainRun(NEWLINE)>>>>
        ELSE Append(st.writes, <<PlainRun(NEWLINE)>>)

(***************************************************************************)
(* The fenced blocks of a text: the first marker pairs with the next       *)
(* marker after it, the third with the fourth, and so on.  A block is the  *)
(* span <<s, e>> of positions from its opening marker to the end of its    *)
(* closing marker.                                                         *)
(***************************************************************************)
RECURSIVE FencedBlocks(_, _)
FencedBlocks(text, from) ==
    LET s == IndexOf(text, CODE_BLOCK_MD, from)
        e == IF s = -1 THEN -1
             ELSE IndexOf(text, CODE_BLOCK_MD, s + Len(CODE_BLOCK_MD))
    IN  IF e = -1 THEN {}
        ELSE {<<s, e + Len(CODE_BLOCK_MD)>>}
             \cup FencedBlocks(text, e + Len(CODE_BLOCK_MD))

(***************************************************************************)
(* C1.  For any response text and any two ways of splitting it into        *)
(* fragments, printStream produces the same total terminal output; so      *)
(* every delivery produces the output of the delivery as one fragment.     *)
(***************************************************************************)
C1_OutputIndependentOfSplit ==
    pc = "done" => Output(writes) = Output(WholeWrites(input))

(***************************************************************************)
(* C2.  For any text and any fragmentation, the terminal output with the   *)
(* styling removed is the input text followed by the final newline.        *)
(***************************************************************************)
C2_DestyledOutputIsInput ==
    pc = "done" => Destyled(writes) = input \o NEWLINE

(***************************************************************************)
(* C3.  If the stream ends while text is still buffered (a fence is open), *)
(* the buffered text is written exactly as received, unstyled, and is      *)
(* followed only by the final newline.                                     *)
(***************************************************************************)
C3_OpenFenceFlushedVerbatim ==
    (pc = "done" /\ buffer # <<>>) =>
        /\ Len(writes) >= 2
        /\ writes[Len(writes) - 1] = <<PlainRun(buffer)>>
        /\ writes[Len(writes)] = <<PlainRun(NEWLINE)>>

(***************************************************************************)
(* C4.  printStream returns exactly the concatenation of the fragments in  *)
(* arrival order, each once.                                               *)
(***************************************************************************)
C4_ReturnsConcatenationOfFragments ==
    pc = "done" => fullResponse = received

(***************************************************************************)
(* Styled units.  A styled unit is the dimmed fence, the dimmed language   *)
(* tag if there is one, a newline, the payload (highlighted when the       *)
(* highlighter knows the tag, raw otherwise), a newline and the dimmed     *)
(* closing fence.                                                          *)
(***************************************************************************)
StyledUnit(tag, payload) ==
    <<DimRun(CODE_BLOCK_MD)>>
    \o (IF tag # <<>> THEN <<DimRun(tag)>> ELSE <<>>)
    \o <<PlainRun(NEWLINE),
         IF tag \in SupportedLanguages THEN HlRun(tag, payload) ELSE PlainRun(payload),
         PlainRun(NEWLINE),
         DimRun(CODE_BLOCK_MD)>>

IsStyledUnit(w) ==
    /\ Len(w) >= 5
    /\ w[1] = DimRun(CODE_BLOCK_MD)
    /\ w[Len(w)] = DimRun(CODE_BLOCK_MD)

\* the payload run of a styled unit
UnitPayload(w) == w[Len(w) - 2]

\* the text of the payload lines, joined by newlines
PayloadText(p) == IF p = <<>> THEN <<>> ELSE SubSeq(Lines(p), 1, Len(Lines(p)) - 1)

\* the input text a write was taken from
SpanText(k) == Slice(input, spans[k][1], spans[k][2])

\* a text that is one closed block: it opens with a marker and its next
\* marker ends it
IsClosedBlock(text) ==
    /\ StartsWith(text, CODE_BLOCK_MD)
    /\ IndexOf(text, CODE_BLOCK_MD, Len(CODE_BLOCK_MD)) # -1
    /\ IndexOf(text, CODE_BLOCK_MD, Len(CODE_BLOCK_MD)) = Len(text) - Len(CODE_BLOCK_MD)

\* the remainder of the first line of a block after its opening marker
TagOf(text) ==
    LET nl == IndexOf(text, NEWLINE, 0)
    IN  Slice(text, Len(CODE_BLOCK_MD), IF nl = -1 THEN Len(text) ELSE nl)

\* the lines of a block strictly between its first and its last line
InteriorText(text) ==
    LET first == IndexOf(text, NEWLINE, 0)
        last == LastIndexOf(text, NEWLINE)
    IN  IF first = -1 \/ first = last THEN <<>> ELSE Slice(text, first + 1, last)

(***************************************************************************)
(* C5.  No part of a fenced block of the response, from its opening marker *)
(* on, is written before its closing marker has arrived or the stream has  *)
(* ended; and whatever is written of a block is the whole block, closing   *)
(* marker included, written by one write as a styled unit.                 *)
(***************************************************************************)
C5_BlockBufferedThenOneStyledWrite ==
    \A b \in FencedBlocks(input, 0) :
        /\ (pc = "reading" /\ Len(received) < b[2]) =>
               \A k \in 1..Len(spans) : spans[k][2] <= b[1]
        /\ \A k \in 1..Len(spans) :
               (spans[k][1] < spans[k][2] /\ spans[k][1] < b[2] /\ spans[k][2] > b[1]) =>
                   (spans[k] = b /\ IsStyledUnit(writes[k]))

(***************************************************************************)
(* C6.  A well-formed fenced block delivered as a single fragment yields   *)
(* exactly one styled unit, whose language tag is the remainder of the     *)
(* first line and whose payload is exactly the interior lines, and nothing *)
(* else is written except the final newline.                               *)
(***************************************************************************)
C6_SingleFragmentBlockIsOneUnit ==
    \A t \in Tags, p \in Payloads :
        (pc = "done" /\ nfrags = 1 /\ input = Block(t, p)) =>
            Printed(writes) = <<StyledUnit(t, PayloadText(p)), <<PlainRun(NEWLINE)>>>>

C6_Witness ==
    /\ pc = "done"
    /\ nfrags = 1
    /\ input = Block(<<"c">>, <<<<"a">>, <<BT>>>>)
    /\ Len(Printed(writes)) = 2
    /\ UnitPayload(writes[2]) = HlRun(<<"c">>, <<"a", NL, BT>>)

(***************************************************************************)
(* C7.  For a response a + block1 + b + block2 + c, with a, b, c plain     *)
(* text without a marker and both blocks well-formed, the writes are in    *)
(* order a, styled(block1), b, styled(block2), c (then the final           *)
(* newline): the first marker pairs with the second, the third with the    *)
(* fourth.  The blocks of the response are found by FencedBlocks, so a     *)
(* response counts as being of this form when its two fenced blocks are    *)
(* well-formed and the text around them is plain.                          *)
(***************************************************************************)
PlainWriteOf(text) == IF text = <<>> THEN <<>> ELSE <<<<PlainRun(text)>>>>

UnitOf(text) == StyledUnit(TagOf(text), InteriorText(text))

C7_TwoBlocksInOrder ==
    \A b1 \in FencedBlocks(input, 0), b2 \in FencedBlocks(input, 0) :
        (/\ pc = "done"
         /\ Cardinality(FencedBlocks(input, 0)) = 2
         /\ b1[2] <= b2[1]
         /\ Slice(input, b1[1], b1[2]) \in Blocks
         /\ Slice(input, b2[1], b2[2]) \in Blocks
         /\ Slice(input, 0, b1[1]) \in PlainTexts
         /\ Slice(input, b1[2], b2[1]) \in PlainTexts
         /\ SliceFrom(input, b2[2]) \in PlainTexts)
        => Printed(writes) =
              PlainWriteOf(Slice(input, 0, b1[1]))
              \o <<UnitOf(Slice(input, b1[1], b1[2]))>>
              \o PlainWriteOf(Slice(input, b1[2], b2[1]))
              \o <<UnitOf(Slice(input, b2[1], b2[2]))>>
              \o PlainWriteOf(SliceFrom(input, b2[2]))
              \o <<<<PlainRun(NEWLINE)>>>>

(***************************************************************************)
(* C8.  A block whose opening and closing markers are adjacent, or have    *)
(* only a newline between them, is emitted as a styled unit with an empty  *)
(* payload.                                                                *)
(***************************************************************************)
EmptyBlocks == {CODE_BLOCK_MD \o CODE_BLOCK_MD, CODE_BLOCK_MD \o NEWLINE \o CODE_BLOCK_MD}

C8_EmptyBlockIsEmptyUnit ==
    \A k \in 1..Len(writes) :
        SpanText(k) \in EmptyBlocks =>
            (IsStyledUnit(writes[k]) /\ UnitPayload(writes[k]).s = <<>>)

C8_Witness ==
    /\ pc = "done"
    /\ nfrags = 2
    /\ \E k \in 1..Len(writes) :
          /\ SpanText(k) = CODE_BLOCK_MD \o CODE_BLOCK_MD
          /\ IsStyledUnit(writes[k])
          /\ UnitPayload(writes[k]) = PlainRun(<<>>)

(***************************************************************************)
(* C9.  When the language tag of a closed block is not recognised by the   *)
(* highlighter (the empty tag included), the styled unit written for the   *)
(* block holds the payload verbatim and unhighlighted, with nothing added. *)
(***************************************************************************)
C9_UnknownLanguagePayloadVerbatim ==
    \A k \in 1..Len(writes) :
        (IsClosedBlock(SpanText(k)) /\ TagOf(SpanText(k)) \notin SupportedLanguages) =>
            writes[k] =
                <<DimRun(CODE_BLOCK_MD)>>
                \o (IF TagOf(SpanText(k)) # <<>> THEN <<DimRun(TagOf(SpanText(k)))>> ELSE <<>>)
                \o <<PlainRun(NEWLINE), PlainRun(InteriorText(SpanText(k))),
                     PlainRun(NEWLINE), DimRun(CODE_BLOCK_MD)>>

C9_Witness ==
    /\ pc = "done"
    /\ nfrags = 2
    /\ \E k \in 1..Len(writes) :
          /\ SpanText(k) = Block(<<"a">>, <<<<"c">>>>)
          /\ UnitPayload(writes[k]) = PlainRun(<<"c">>)
    /\ \E k \in 1..Len(writes) :
          /\ SpanText(k) = Block(<<>>, <<>>)
          /\ UnitPayload(writes[k]) = PlainRun(<<>>)

(***************************************************************************)
(* C10.  The writes consume the input strictly left to right: the first    *)
(* write starts at the beginning of the stream, each write renders the     *)
(* span that begins where the span of the previous write ended, a plain    *)
(* write is exactly the text of its span and a styled write renders a span *)
(* that opens with a marker, and at the end of the stream the spans have   *)
(* covered the whole input.                                                *)
(***************************************************************************)
C10_WritesConsumeInputLeftToRight ==
    /\ Len(spans) = Len(writes)
    /\ \A k \in 1..Len(spans) :
          /\ spans[k][1] = (IF k = 1 THEN 0 ELSE spans[k - 1][2])
          /\ spans[k][1] <= spans[k][2]
          /\ spans[k][2] <= Len(received)
          /\ IF pc = "done" /\ k = Len(spans)
             THEN writes[k] = <<PlainRun(NEWLINE)>> /\ spans[k][2] = Len(input)
             ELSE IF IsPlainWrite(writes[k])
             THEN writes[k] = <<PlainRun(SpanText(k))>>
             ELSE IsStyledUnit(writes[k]) /\ StartsWith(SpanText(k), CODE_BLOCK_MD)
    /\ pc = "reading" =>
          /\ off = (IF spans = <<>> THEN 0 ELSE spans[Len(spans)][2])
          /\ buffer = SliceFrom(received, off)

C10_Witness ==
    /\ pc = "done"
    /\ nfrags = 2
    /\ Len(Printed(writes)) >= 5
    /\ \E k \in 1..Len(writes) : IsStyledUnit(writes[k]) /\ spans[k][1] > 0

(***************************************************************************)
(* The argument parser, src/args.ts.  An argument is a text, so that the   *)
(* parser can be followed character by character.                          *)
(***************************************************************************)
DASH == "-"
EQUALS == "="
SPACE == " "

\* arg.split(sep) for a separator of one character
RECURSIVE SplitOn(_, _)
SplitOn(s, sep) ==
    LET i == IndexOf(s, <<sep>>, 0)
    IN  IF i = -1 THEN <<s>>
        ELSE <<Slice(s, 0, i)>> \o SplitOn(SliceFrom(s, i + 1), sep)

\* keyRaw.replace(/^-+/, "")
RECURSIVE StripDashes(_)
StripDashes(s) ==
    IF s # <<>> /\ Head(s) = DASH THEN StripDashes(Tail(s)) ELSE s

\* value.toLowerCase(), for the letters that occur in the arguments
LowerOf(ch) ==
    CASE ch = "T" -> "t"
      [] ch = "R" -> "r"
      [] ch = "U" -> "u"
      [] ch = "E" -> "e"
      [] OTHER -> ch

ToLowerCase(s) == [i \in 1..Len(s) |-> LowerOf(s[i])]

\* promptParts.join(sep)
\* mutant of JoinWith: the parts are put together without the separator
RECURSIVE MutJoinWithoutSeparator(_, _)
MutJoinWithoutSeparator(parts, sep) ==
    IF Len(parts) = 0 THEN <<>>
    ELSE parts[1] \o MutJoinWithoutSeparator(Tail(parts), sep)

RECURSIVE JoinWith(_, _)
JoinWith(parts, sep) ==
    IF Len(parts) = 0 THEN <<>>
    ELSE IF Len(parts) = 1 THEN parts[1]
    ELSE parts[1] \o sep \o JoinWith(Tail(parts), sep)

\* the entries of OPTIONS_CONFIG in the order objectEntries lists them;
\* name is the field of the options record, key the same name as a text
OPTIONS_CONFIG ==
    << [name |-> "help", key |-> <<"h", "e", "l", "p">>, short |-> <<"h">>,
        type |-> "boolean", required |-> FALSE],
       [name |-> "url", key |-> <<"u", "r", "l">>, short |-> <<"u">>,
        type |-> "string", required |-> FALSE],
       [name |-> "search", key |-> <<"s", "e", "a", "r", "c", "h">>,
        short |-> <<"s">>, type |-> "boolean", required |-> FALSE],
       [name |-> "version", key |-> <<"v", "e", "r", "s", "i", "o", "n">>,
        short |-> <<"v">>, type |-> "boolean", required |-> FALSE],
       [name |-> "new", key |-> <<"n", "e", "w">>, short |-> <<"n">>,
        type |-> "boolean", required |-> FALSE] >>

\* the parser while it runs: options, promptParts and the value it threw
NewParser == [options |-> DefaultOptions, promptParts |-> <<>>, error |-> NoError]

\* parseOption once arg.split has run: the text before the first = names
\* the option, the text between the first and the second = is its value
SetOption(st, keyRaw, value, found) ==
    IF keyRaw = <<>> THEN [st EXCEPT !.error = "Invalid option"]
    ELSE IF found = {} THEN [st EXCEPT !.error = "Unknown option"]
    ELSE IF OPTIONS_CONFIG[Min(found)].type = "boolean"
    THEN [st EXCEPT !.options[OPTIONS_CONFIG[Min(found)].name] =
             IF value = Undefined THEN TRUE
             ELSE ToLowerCase(value) = <<"t", "r", "u", "e">>]
    ELSE IF (value = Undefined \/ value = <<>>)
            /\ OPTIONS_CONFIG[Min(found)].required
    THEN [st EXCEPT !.error = "Option requires a value"]
    ELSE [st EXCEPT !.options[OPTIONS_CONFIG[Min(found)].name] = value]

\* config.short === key || optionKey === key
FindOption(key) ==
    {i \in 1..Len(OPTIONS_CONFIG) :
        OPTIONS_CONFIG[i].short = key \/ OPTIONS_CONFIG[i].key = key}

\* the destructuring of arg.split
KeyAndValue(parts) ==
    [keyRaw |-> parts[1],
     value |-> IF Len(parts) >= 2 THEN parts[2] ELSE Undefined]

ParsedOption(st, kv) ==
    SetOption(st, kv.keyRaw, kv.value, FindOption(StripDashes(kv.keyRaw)))

parseOption(st, arg) == ParsedOption(st, KeyAndValue(SplitOn(arg, EQUALS)))

\* the loop of parse over the arguments; a throw ends it
RECURSIVE ParseLoop(_, _)
ParseLoop(st, args) ==
    IF args = <<>> \/ st.error # NoError THEN st
    ELSE LET arg == Head(args)
         IN  IF arg = <<>> THEN ParseLoop(st, Tail(args))
             ELSE IF StartsWith(arg, <<DASH>>)
             THEN ParseLoop(parseOption(st, arg), Tail(args))
             ELSE ParseLoop([st EXCEPT !.promptParts = Append(@, arg)], Tail(args))

\* a required option that is falsy after the loop
MissingRequired(opts) ==
    {i \in 1..Len(OPTIONS_CONFIG) :
        /\ OPTIONS_CONFIG[i].required
        /\ opts[OPTIONS_CONFIG[i].name] \in {FALSE, <<>>, Undefined}}

\* parse after its loop: the validation and the returned value
ParseResult(st) ==
    IF st.error # NoError
    THEN [prompt |-> <<>>, options |-> st.options, error |-> st.error]
    ELSE IF MissingRequired(st.options) # {}
    THEN [prompt |-> <<>>, options |-> st.options,
          error |-> "Required option is missing"]
    ELSE [prompt |-> JoinWith(st.promptParts, <<SPACE>>),
          options |-> st.options, error |-> NoError]

\* parseArgs(process.argv.slice(2), OPTIONS_CONFIG)
parseArgs(args) == ParseResult(ParseLoop(NewParser, args))

(***************************************************************************)
(* The conversation store, src/unnamed/part_002 (imported by index.ts as   *)
(* ./conversation).  A table is the sequence of its rows in insertion      *)
(* order.  Each function takes the tables and the clock and returns the    *)
(* tables it leaves behind.                                                *)
(***************************************************************************)
\* mutant of StoreFails: a data directory that cannot be used goes unnoticed
MutStoreFailsWithoutHomeOnly(e) == ~e.HOME

\* getDb throws: getDatabasePath when no home directory is configured, the
\* Database constructor when the file in the data directory cannot be
\* created or opened
StoreFails(e) == ~e.HOME \/ e.DATA_DIR = "unusable"

\* stands for whichever error getDb threw
STORE_ERROR == "Could not determine home directory"

\* nanoid(): an id that no row of the table carries
FreshId(rows) == Len(rows) + 1

\* createConversation
createConversation(d, t) ==
    [db |-> [d EXCEPT !.conversations =
                Append(@, [id |-> FreshId(@), createdAt |-> t, updatedAt |-> t])],
     id |-> FreshId(d.conversations)]

\* mutant of setCurrentConversation: the pointer row is never written
MutSetCurrentConversation(d, id, t) == d

\* the DELETE of setCurrentConversation: every pointer row goes
DeleteCurrent(d) == [d EXCEPT !.current = <<>>]

\* mutant of PointerInsertFails: the key of the pointer table is not checked
MutPointerInsertNeverFails(d) == FALSE

\* the INSERT of setCurrentConversation fails on the primary key when a row
\* with id 1 is in the table
PointerInsertFails(d) == \E i \in 1..Len(d.current) : d.current[i].id = 1

\* the INSERT of setCurrentConversation: the row with id 1
InsertCurrent(d, id, t) ==
    [d EXCEPT !.current =
        Append(@, [id |-> 1, conversationId |-> id, updatedAt |-> t])]

\* setCurrentConversation: DELETE of every pointer row, INSERT of row 1
setCurrentConversation(d, id, t) == InsertCurrent(DeleteCurrent(d), id, t)

\* mutant of getCurrentConversationId: the conversation that was created
\* first
MutGetFirstConversationId(d) ==
    IF d.conversations = <<>> THEN NoConv ELSE d.conversations[1].id

\* getCurrentConversationId: the pointer row with the latest updatedAt
getCurrentConversationId(d) ==
    IF d.current = <<>> THEN NoConv
    ELSE LET latest == Max({d.current[i].updatedAt : i \in 1..Len(d.current)})
             i == Min({j \in 1..Len(d.current) : d.current[j].updatedAt = latest})
         IN  d.current[i].conversationId

\* mutant of NeedsConversation: createNewConversation is not looked at
MutNeedsConversationWithoutIdOnly(o) == o.conversationId = NoConv

\* saveMessage, the test before createConversation
NeedsConversation(o) == o.createNewConversation \/ o.conversationId = NoConv

\* mutant of UpdateUpdatedAt: the statement sets createdAt as well
MutUpdateSetsCreatedAt(d, id, t) ==
    [d EXCEPT !.conversations =
        [i \in 1..Len(@) |->
            IF @[i].id = id THEN [@[i] EXCEPT !.updatedAt = t, !.createdAt = t]
            ELSE @[i]]]

\* the UPDATE of saveMessage: updatedAt of the rows with this id, which may
\* be none; foreign keys are declared but SQLite does not enforce them
\* unless the connection turns them on, and getDb does not
UpdateUpdatedAt(d, id, t) ==
    [d EXCEPT !.conversations =
        [i \in 1..Len(@) |->
            IF @[i].id = id THEN [@[i] EXCEPT !.updatedAt = t] ELSE @[i]]]

\* the INSERT of saveMessage into the messages table
InsertMessage(d, id, o, t) ==
    [d EXCEPT !.messages =
        Append(@, [id |-> FreshId(@), conversationId |-> id, role |-> o.role,
                   content |-> o.content, createdAt |-> t])]

\* saveMessage up to the UPDATE: the conversation the call works with
ConversationFor(d, o, t) ==
    IF NeedsConversation(o) THEN createConversation(d, t)
    ELSE [db |-> d, id |-> o.conversationId]

\* saveMessage from the UPDATE on; c is what ConversationFor returned
SaveInto(c, o, t) ==
    [db |-> InsertMessage(
                setCurrentConversation(UpdateUpdatedAt(c.db, c.id, t), c.id, t),
                c.id, o, t),
     id |-> c.id]

\* saveMessage; o is the SaveMessageOptions argument
saveMessage(d, o, t) == SaveInto(ConversationFor(d, o, t), o, t)

\* the ways of listing the rows with the indices in idx by ascending
\* createdAt; rows with equal createdAt come in any order
RECURSIVE OrderedByCreatedAt(_, _)
OrderedByCreatedAt(rows, idx) ==
    IF idx = {} THEN {<<>>}
    ELSE LET least == Min({rows[i].createdAt : i \in idx})
         IN  UNION {{<<rows[i]>> \o rest :
                        rest \in OrderedByCreatedAt(rows, idx \ {i})} :
                    i \in {j \in idx : rows[j].createdAt = least}}

\* getConversation: the results that the query may return
getConversation(d, id) ==
    OrderedByCreatedAt(d.messages,
        {i \in 1..Len(d.messages) : d.messages[i].conversationId = id})

(***************************************************************************)
(* genStreamResponse and processAiCommand, src/index.ts:918-964 and        *)
(* 1054-1146.                                                              *)
(***************************************************************************)
SYSTEM_CONTENT == <<"Y", "o", "u", " ", "a", "r", "e", " ", "C", "l", "a", "u", "d", "e", ",", " ", "a", " ", "h", "e", "l", "p", "f", "u", "l", " ", "A", "I", " ", "a", "s", "s", "i", "s", "t", "a", "n", "t", ".">>

INURL == <<" ", "i", "n", "u", "r", "l", ":">>

TURN_SEPARATOR == <<NL, NL>>

ASSISTANT_CUE == <<"\n", "\n", "a", "s", "s", "i", "s", "t", "a", "n", "t", ":">>

\* a role as it is interpolated into the prompt
RoleText(role) ==
    CASE role = "system" -> <<"s", "y", "s", "t", "e", "m">>
      [] role = "user" -> <<"u", "s", "e", "r">>
      [] role = "assistant" -> <<"a", "s", "s", "i", "s", "t", "a", "n", "t">>

\* a value interpolated into a template literal
ToText(v) == IF v = Undefined THEN <<"u", "n", "d", "e", "f", "i", "n", "e", "d">> ELSE v

\* one message of the history: role, colon, space, content
RenderMessage(msg) == RoleText(msg.role) \o <<":", SPACE>> \o msg.content

\* conversation.map(...).join of the history
RenderHistory(conversation) ==
    JoinWith([i \in 1..Len(conversation) |-> RenderMessage(conversation[i])],
             TURN_SEPARATOR)

\* the prompt of the search branch
SearchPrompt(p, url) == IF url # <<>> THEN p \o INURL \o ToText(url) ELSE p

\* the prompt of the general branch, given the result of getConversation
FullPrompt(p, conversation) ==
    IF Len(conversation) > 0
    THEN RenderHistory(conversation) \o TURN_SEPARATOR
         \o RoleText("user") \o <<":", SPACE>> \o p \o ASSISTANT_CUE
    ELSE p

\* how many invocations of the command one behaviour launches
MaxInvocations == 3

\* the prompt word of the command lines
WORD == <<"h", "i">>

\* the command lines: a plain prompt, the new flag, the search flag, a URL
\* hint with a value, without a value and with an empty value, help,
\* version, no prompt at all, and a flag that does not exist
Argvs ==
    { <<WORD>>,
      <<<<"-", "n">>, WORD>>,
      <<<<"-", "s">>, WORD>>,
      <<<<"-", "-", "u", "r", "l", "=", "x">>, WORD>>,
      <<<<"-", "u">>, WORD>>,
      <<<<"-", "s">>, <<"-", "-", "u", "r", "l", "=">>, WORD>>,
      <<<<"-", "h">>>>,
      <<<<"-", "v">>, WORD>>,
      <<>>,
      <<<<"-", "x">>, WORD>> }

\* the response bodies: plain text, and a fence that is never closed
Bodies == {<<"c">>, CODE_BLOCK_MD}

Environments ==
    [ANTHROPIC_API_KEY : BOOLEAN, PERPLEXITY_API_KEY : BOOLEAN, HOME : BOOLEAN,
     DATA_DIR : {"usable", "unusable"}]

\* what the first part of processAiCommand leaves behind
Threw(opts, err) ==
    [phase |-> "threw", options |-> opts, prompt |-> <<>>, console |-> <<>>,
     error |-> err]

Returned(opts, line) ==
    [phase |-> "returned", options |-> opts, prompt |-> <<>>,
     console |-> <<line>>, error |-> NoError]

\* the invocation goes on to the conversation handling
Proceed(opts, p) ==
    [phase |-> "select", options |-> opts, prompt |-> p, console |-> <<>>,
     error |-> NoError]

\* mutant of AfterParse: the Perplexity credential is not checked
MutAfterParseNoSearchKeyCheck(e, r) ==
    IF r.error # NoError THEN Threw(r.options, r.error)
    ELSE IF r.options.help THEN Returned(r.options, "HELP_MESSAGE")
    ELSE IF r.options.version THEN Returned(r.options, "version")
    ELSE IF r.prompt = <<>> THEN Threw(r.options, "prompt is required")
    ELSE IF r.options.search \/ r.options.url # <<>>
    THEN Proceed([r.options EXCEPT !.search = TRUE], r.prompt)
    ELSE Proceed(r.options, r.prompt)

\* mutant of AfterParse: an empty prompt is let through
MutAfterParseNoPromptCheck(e, r) ==
    IF r.error # NoError THEN Threw(r.options, r.error)
    ELSE IF r.options.help THEN Returned(r.options, "HELP_MESSAGE")
    ELSE IF r.options.version THEN Returned(r.options, "version")
    ELSE IF r.options.search \/ r.options.url # <<>>
    THEN IF ~e.PERPLEXITY_API_KEY
         THEN Threw([r.options EXCEPT !.search = TRUE],
                    "PERPLEXITY_API_KEY must be set")
         ELSE Proceed([r.options EXCEPT !.search = TRUE], r.prompt)
    ELSE Proceed(r.options, r.prompt)

\* processAiCommand from the return of parseArgs to the conversation
\* handling, src/index.ts:1064-1086: help, version, the prompt, and the
\* switch to the search provider with its credential
AfterParse(e, r) ==
    IF r.error # NoError THEN Threw(r.options, r.error)
    ELSE IF r.options.help THEN Returned(r.options, "HELP_MESSAGE")
    ELSE IF r.options.version THEN Returned(r.options, "version")
    ELSE IF r.prompt = <<>> THEN Threw(r.options, "prompt is required")
    ELSE IF r.options.search \/ r.options.url # <<>>
    THEN IF ~e.PERPLEXITY_API_KEY
         THEN Threw([r.options EXCEPT !.search = TRUE],
                    "PERPLEXITY_API_KEY must be set")
         ELSE Proceed([r.options EXCEPT !.search = TRUE], r.prompt)
    ELSE Proceed(r.options, r.prompt)

\* processAiCommand up to the conversation handling, src/index.ts:1055-1086:
\* the Anthropic credential is checked before the arguments are parsed
Startup(e, args) ==
    IF ~e.ANTHROPIC_API_KEY
    THEN Threw(DefaultOptions, "ANTHROPIC_API_KEY must be set")
    ELSE AfterParse(e, parseArgs(args))

\* the system message that opens a conversation
SystemMessage ==
    [conversationId |-> NoConv, role |-> "system", content |-> SYSTEM_CONTENT,
     createNewConversation |-> TRUE]

\* a store call that threw before it touched the tables
StoreThrew(d, ops) ==
    [db |-> d, id |-> NoConv, ops |-> ops, console |-> <<>>,
     error |-> STORE_ERROR]

\* a conversation was opened: s is what saveMessage returned
Started(s, ops) ==
    [db |-> s.db, id |-> s.id, ops |-> ops,
     console |-> <<"Starting new conversation">>, error |-> NoError]

\* saveMessage of the system message with createNewConversation
StartConversation(e, d, t, ops) ==
    IF StoreFails(e) THEN StoreThrew(d, ops)
    ELSE Started(saveMessage(d, SystemMessage, t), ops)

\* src/index.ts:1101-1113: cur is what getCurrentConversationId returned
GetOrCreate(e, d, t, cur) ==
    IF cur = NoConv
    THEN StartConversation(e, d, t, <<"getCurrentConversationId", "saveMessage">>)
    ELSE [db |-> d, id |-> cur, ops |-> <<"getCurrentConversationId">>,
          console |-> <<"Continuing conversation">>, error |-> NoError]

\* mutant of selectConversation: a conversation is selected in search mode too
MutSelectInSearchMode(e, d, opts, t) ==
    IF opts.new THEN StartConversation(e, d, t, <<"saveMessage">>)
    ELSE IF StoreFails(e) THEN StoreThrew(d, <<"getCurrentConversationId">>)
    ELSE GetOrCreate(e, d, t, getCurrentConversationId(d))

\* mutant of selectConversation: the pointer is not consulted
MutSelectAlwaysNew(e, d, opts, t) ==
    IF opts.search
    THEN [db |-> d, id |-> NoConv, ops |-> <<>>, console |-> <<>>,
          error |-> NoError]
    ELSE StartConversation(e, d, t, <<"saveMessage">>)

\* the conversation handling of processAiCommand, src/index.ts:1088-1115
selectConversation(e, d, opts, t) ==
    IF opts.search
    THEN [db |-> d, id |-> NoConv, ops |-> <<>>, console |-> <<>>,
          error |-> NoError]
    ELSE IF opts.new THEN StartConversation(e, d, t, <<"saveMessage">>)
    ELSE IF StoreFails(e) THEN StoreThrew(d, <<"getCurrentConversationId">>)
    ELSE GetOrCreate(e, d, t, getCurrentConversationId(d))

(***************************************************************************)
(* The invocations of the command, one after the other.  A process starts  *)
(* with fresh local state; the store and the environment are what it finds.*)
(***************************************************************************)
\* the local state of printStream before the first read of the body text
BodyUnread(text) ==
    /\ input' = text
    /\ received' = <<>>
    /\ nfrags' = 0
    /\ cutInMarker' = FALSE
    /\ buffer' = <<>>
    /\ fullResponse' = <<>>
    /\ writes' = <<>>
    /\ spans' = <<>>
    /\ off' = 0
    /\ pc' = "reading"

InitCli ==
    /\ env \in Environments
    /\ db = EmptyDb
    /\ db0 = EmptyDb
    /\ now = 0
    /\ argv = <<>>
    /\ parsed = parseArgs(<<>>)
    /\ phase = "idle"
    /\ options = DefaultOptions
    /\ prompt = <<>>
    /\ conversationId = NoConv
    /\ calls = <<>>
    /\ storeOps = <<>>
    /\ console = <<>>
    /\ response = "none"
    /\ error = NoError
    /\ exitStatus = -1
    /\ invocations = 0
    /\ lastConv = NoConv
    /\ searchedSince = FALSE
    /\ clean = TRUE
    /\ NoStoreCalls
    /\ DirectoryReady
    /\ input = <<>>
    /\ received = <<>>
    /\ nfrags = 0
    /\ cutInMarker = FALSE
    /\ buffer = <<>>
    /\ fullResponse = <<>>
    /\ writes = <<>>
    /\ spans = <<>>
    /\ off = 0
    /\ pc = "reading"

\* the newest timestamp of a store, 0 for a store without messages
LatestStamp(d) ==
    Max({0} \cup {d.messages[i].createdAt : i \in 1..Len(d.messages)})

\* the invocation went through general-assistant mode and did not throw
CompletedInGeneralMode ==
    error = NoError /\ conversationId # NoConv /\ ~options.search

\* the shell starts the command: main is entered, src/index.ts:1201-1205.
\* Time has passed since the previous process ended.  Timestamps are only
\* ever compared with each other, so the clock is kept relative to the
\* newest row of the store.
Launch ==
    /\ phase \in {"idle", "exit"}
    /\ invocations < MaxInvocations
    /\ argv' \in Argvs
    /\ parsed' = parseArgs(argv')
    /\ invocations' = invocations + 1
    /\ db0' = db
    /\ now' = LatestStamp(db) + 1
    /\ lastConv' = IF conversationId # NoConv THEN conversationId ELSE lastConv
    /\ searchedSince' = IF conversationId # NoConv THEN FALSE
                        ELSE IF options.search /\ calls # <<>>
                        THEN lastConv # NoConv
                        ELSE searchedSince
    /\ clean' = (clean /\ (phase = "exit" => CompletedInGeneralMode))
    /\ phase' = "start"
    /\ options' = DefaultOptions
    /\ prompt' = <<>>
    /\ conversationId' = NoConv
    /\ calls' = <<>>
    /\ storeOps' = <<>>
    /\ console' = <<>>
    /\ response' = "none"
    /\ error' = NoError
    /\ exitStatus' = -1
    /\ BodyUnread(<<>>)
    /\ UNCHANGED <<env, db>>

\* src/index.ts:1055-1086
StartAs(r) ==
    /\ phase' = r.phase
    /\ options' = r.options
    /\ prompt' = r.prompt
    /\ console' = console \o r.console
    /\ error' = r.error

Start ==
    /\ phase = "start"
    /\ StartAs(Startup(env, argv))
    /\ UNCHANGED <<env, db, db0, now, argv, parsed, conversationId, calls, storeOps,
                   response, exitStatus, invocations, lastConv,
                   searchedSince, clean>>
    /\ UNCHANGED streamVars

\* src/index.ts:1088-1115
SelectAs(r) ==
    /\ db' = r.db
    /\ conversationId' = r.id
    /\ storeOps' = storeOps \o r.ops
    /\ console' = console \o r.console
    /\ error' = r.error
    /\ phase' = IF r.error # NoError THEN "threw" ELSE "generate"

Select ==
    /\ phase = "select"
    /\ SelectAs(selectConversation(env, db, options, now))
    /\ UNCHANGED <<env, db0, now, argv, parsed, options, prompt, calls, response,
                   exitStatus, invocations, lastConv,
                   searchedSince, clean>>
    /\ UNCHANGED streamVars

\* by how much the clock may have advanced since the previous store call of
\* this process; without such a call the time of Launch is read
Ticks == IF storeOps = <<>> THEN {0} ELSE {0, 1}

\* mutant of UserMessage: the content of the turn is dropped
MutUserMessageEmpty ==
    [conversationId |-> conversationId, role |-> "user", content |-> <<>>,
     createNewConversation |-> FALSE]

\* the user turn as genStreamResponse saves it
UserMessage ==
    [conversationId |-> conversationId, role |-> "user", content |-> prompt,
     createNewConversation |-> FALSE]

\* genStreamResponse, src/index.ts:925-932: the user turn is saved
Generate ==
    /\ phase = "generate"
    /\ IF conversationId = NoConv
       THEN /\ phase' = "request"
            /\ UNCHANGED <<db, now, storeOps, error>>
       ELSE IF StoreFails(env)
       THEN /\ phase' = "threw"
            /\ error' = STORE_ERROR
            /\ storeOps' = Append(storeOps, "saveMessage")
            /\ UNCHANGED <<db, now>>
       ELSE \E d \in Ticks :
            /\ db' = saveMessage(db, UserMessage, now + d).db
            /\ now' = now + d
            /\ storeOps' = Append(storeOps, "saveMessage")
            /\ phase' = "request"
            /\ UNCHANGED error
    /\ UNCHANGED <<env, db0, argv, parsed, options, prompt, conversationId, calls,
                   console, response, exitStatus, invocations, lastConv,
                   searchedSince, clean>>
    /\ UNCHANGED streamVars

\* the outcomes of toTextStreamResponse that processAiCommand tells apart
Responses == {"ok", "notok", "nobody"}

\* genStreamResponse, src/index.ts:934-964: the prompt is built and given
\* to the provider; the provider takes time to answer
Request ==
    /\ phase = "request"
    /\ IF options.search
       THEN /\ calls' = Append(calls, [provider |-> "perplexity",
                                      prompt |-> SearchPrompt(prompt, options.url)])
            /\ UNCHANGED storeOps
       ELSE IF conversationId = NoConv
       THEN /\ calls' = Append(calls, [provider |-> "anthropic", prompt |-> prompt])
            /\ UNCHANGED storeOps
       ELSE \E conversation \in getConversation(db, conversationId) :
            /\ calls' = Append(calls, [provider |-> "anthropic",
                                      prompt |-> FullPrompt(prompt, conversation)])
            /\ storeOps' = Append(storeOps, "getConversation")
    /\ response' \in Responses
    /\ now' = now + 1
    /\ phase' = "response"
    /\ UNCHANGED <<env, db, db0, argv, parsed, options, prompt, conversationId, console,
                   error, exitStatus, invocations, lastConv,
                   searchedSince, clean>>
    /\ UNCHANGED streamVars

\* src/index.ts:1125-1133
Respond ==
    /\ phase = "response"
    /\ \/ /\ response = "notok"
          /\ console' = Append(console, "failed to get response")
          /\ error' = "response.json()"
          /\ phase' = "threw"
          /\ UNCHANGED streamVars
       \/ /\ response = "nobody"
          /\ error' = "no body in response"
          /\ phase' = "threw"
          /\ UNCHANGED console
          /\ UNCHANGED streamVars
       \/ /\ response = "ok"
          /\ \E body \in Bodies : BodyUnread(body)
          /\ phase' = "stream"
          /\ UNCHANGED <<console, error>>
    /\ UNCHANGED <<env, db, db0, now, argv, parsed, options, prompt, conversationId,
                   calls, storeOps, response, exitStatus, invocations, lastConv,
                   searchedSince, clean>>

\* printStream inside an invocation, src/index.ts:1136
StreamChunk == phase = "stream" /\ ReadChunk /\ UNCHANGED cliVars

StreamDone == phase = "stream" /\ ReadDone /\ UNCHANGED cliVars

\* mutant of AssistantMessage: the response is stored as a user turn
MutAssistantMessageAsUser ==
    [conversationId |-> conversationId, role |-> "user",
     content |-> fullResponse, createNewConversation |-> FALSE]

\* the assistant turn as processAiCommand saves it
AssistantMessage ==
    [conversationId |-> conversationId, role |-> "assistant",
     content |-> fullResponse, createNewConversation |-> FALSE]

\* src/index.ts:1136-1145: printStream has returned
Persist ==
    /\ phase = "stream"
    /\ pc = "done"
    /\ IF conversationId # NoConv /\ ~options.search
       THEN IF StoreFails(env)
            THEN /\ phase' = "threw"
                 /\ error' = STORE_ERROR
                 /\ UNCHANGED db
            ELSE /\ db' = saveMessage(db, AssistantMessage, now).db
                 /\ phase' = "returned"
                 /\ UNCHANGED error
       ELSE /\ phase' = "returned"
            /\ UNCHANGED <<db, error>>
    /\ storeOps' = IF conversationId # NoConv /\ ~options.search
                   THEN Append(storeOps, "saveMessage") ELSE storeOps
    /\ UNCHANGED <<env, db0, now, argv, parsed, options, prompt, conversationId, calls,
                   console, response, exitStatus, invocations, lastConv,
                   searchedSince, clean>>
    /\ UNCHANGED streamVars

\* the exit status after main().catch(console.error): the rejection is
\* handled, so the module ends normally whatever was thrown
ExitStatusOf(err) == 0

\* src/index.ts:1201-1205
Exit ==
    /\ phase \in {"threw", "returned"}
    /\ console' = IF phase = "threw" THEN Append(console, error) ELSE console
    /\ exitStatus' = ExitStatusOf(error)
    /\ phase' = "exit"
    /\ UNCHANGED <<env, db, db0, now, argv, parsed, options, prompt, conversationId,
                   calls, storeOps, response, error, invocations, lastConv,
                   searchedSince, clean>>
    /\ UNCHANGED streamVars

NextCli ==
    \/ Launch /\ UNCHANGED <<storeVars, fsVars>>
    \/ Start /\ UNCHANGED <<storeVars, fsVars>>
    \/ Select /\ UNCHANGED <<storeVars, fsVars>>
    \/ Generate /\ UNCHANGED <<storeVars, fsVars>>
    \/ Request /\ UNCHANGED <<storeVars, fsVars>>
    \/ Respond /\ UNCHANGED <<storeVars, fsVars>>
    \/ StreamChunk /\ UNCHANGED <<storeVars, fsVars>>
    \/ StreamDone /\ UNCHANGED <<storeVars, fsVars>>
    \/ Persist /\ UNCHANGED <<storeVars, fsVars>>
    \/ Exit /\ UNCHANGED <<storeVars, fsVars>>

SpecCli == InitCli /\ [][NextCli]_vars

(***************************************************************************)
(* saveMessage followed statement by statement, src/unnamed/part_002       *)
(* lines 113-140.  Every db.run is a transaction of its own, so another    *)
(* process that has the same database file open (a second invocation of    *)
(* the command) may run its statements between any two of them.            *)
(***************************************************************************)
MaxSaves == 2

\* a conversation id that no row of the conversations table carries
UnknownId == NoConv - 1

\* the messages a caller may hand over
Turns ==
    {[role |-> "user", content |-> <<"a">>],
     [role |-> "assistant", content |-> <<"b">>]}

\* the SaveMessageOptions a caller may hand over to a store d
SaveArgs(d) ==
    {[conversationId |-> id, role |-> m.role, content |-> m.content,
      createNewConversation |-> new] :
        id \in {NoConv, UnknownId} \cup
               {d.conversations[i].id : i \in 1..Len(d.conversations)},
        m \in Turns, new \in BOOLEAN}

\* the calls that are under way
Active == {p \in Procs : callers[p].pc # "idle"}

\* everything but the store, the clock and the callers
besideStore ==
    <<env, db0, argv, parsed, phase, options, prompt, conversationId, calls,
      storeOps, console, response, error, exitStatus, invocations, lastConv,
      searchedSince, clean, streamVars, fsVars>>

InitStore ==
    /\ BodyOnly
    /\ input = <<>>
    /\ received = <<>>
    /\ nfrags = 0
    /\ cutInMarker = FALSE
    /\ buffer = <<>>
    /\ fullResponse = <<>>
    /\ writes = <<>>
    /\ spans = <<>>
    /\ off = 0
    /\ pc = "reading"

\* lines 113-123: process p calls saveMessage(o); the conversation is created
\* when the test of line 118 says so, and the clock is read
BeginSaveWith(p, o, t) ==
    /\ db' = ConversationFor(db, o, t).db
    /\ now' = t
    /\ callers' = [callers EXCEPT ![p] =
          [pc |-> "update", o |-> o, id |-> ConversationFor(db, o, t).id,
           t |-> t, before |-> db]]
    /\ solo' = (solo /\ Active = {})
    /\ UNCHANGED <<ended, lastCall>>

\* the time that may have passed since the clock was read last
StoreTicks == IF ended = 0 /\ Active = {} THEN {0} ELSE {0, 1}

\* the processes are alike, so of the idle ones the first begins
BeginSave(p) ==
    /\ callers[p].pc = "idle"
    /\ \A q \in Procs : q < p => callers[q].pc # "idle"
    /\ ended + Cardinality(Active) < MaxSaves
    /\ \E o \in SaveArgs(db), tick \in StoreTicks :
          BeginSaveWith(p, o, now + tick)
    /\ UNCHANGED besideStore

\* lines 124-127
Update(p) ==
    /\ callers[p].pc = "update"
    /\ db' = UpdateUpdatedAt(db, callers[p].id, callers[p].t)
    /\ callers' = [callers EXCEPT ![p].pc = "delete"]
    /\ UNCHANGED <<now, ended, lastCall, solo, besideStore>>

\* line 92
Delete(p) ==
    /\ callers[p].pc = "delete"
    /\ db' = DeleteCurrent(db)
    /\ callers' = [callers EXCEPT ![p].pc = "insert"]
    /\ UNCHANGED <<now, ended, lastCall, solo, besideStore>>

\* lines 95-98; a failing statement throws out of saveMessage
InsertPointer(p) ==
    /\ callers[p].pc = "insert"
    /\ IF PointerInsertFails(db)
       THEN /\ db' = db
            /\ callers' = [callers EXCEPT ![p] = Idle]
            /\ ended' = ended + 1
            /\ lastCall' = Ended(callers[p], db, FALSE)
       ELSE /\ db' = InsertCurrent(db, callers[p].id, callers[p].t)
            /\ callers' = [callers EXCEPT ![p].pc = "message"]
            /\ UNCHANGED <<ended, lastCall>>
    /\ UNCHANGED <<now, solo, besideStore>>

\* lines 133-139
InsertMsg(p) ==
    /\ callers[p].pc = "message"
    /\ db' = InsertMessage(db, callers[p].id, callers[p].o, callers[p].t)
    /\ callers' = [callers EXCEPT ![p] = Idle]
    /\ ended' = ended + 1
    /\ lastCall' = Ended(callers[p], db', TRUE)
    /\ UNCHANGED <<now, solo, besideStore>>

NextStore ==
    \/ \E p \in Procs : BeginSave(p)
    \/ \E p \in Procs : Update(p)
    \/ \E p \in Procs : Delete(p)
    \/ \E p \in Procs : InsertPointer(p)
    \/ \E p \in Procs : InsertMsg(p)

SpecStore == InitStore /\ [][NextStore]_vars

\* a statement of saveMessage other than the first throws, for a reason
\* outside the program (the database is locked by another process, the
\* disk is full); db.run throws and saveMessage has no handler
StatementFails(p) ==
    /\ callers[p].pc \in {"update", "delete", "insert", "message"}
    /\ callers' = [callers EXCEPT ![p] = Idle]
    /\ ended' = ended + 1
    /\ lastCall' = Ended(callers[p], db, FALSE)
    /\ UNCHANGED <<db, now, solo, besideStore>>

\* the store with statements that may fail
NextStoreFailing ==
    \/ \E p \in Procs : BeginSave(p)
    \/ \E p \in Procs : Update(p)
    \/ \E p \in Procs : Delete(p)
    \/ \E p \in Procs : InsertPointer(p)
    \/ \E p \in Procs : InsertMsg(p)
    \/ \E p \in Procs : StatementFails(p)

SpecStoreFailing == InitStore /\ [][NextStoreFailing]_vars

(***************************************************************************)
(* What the claims about an invocation speak of.                           *)
(***************************************************************************)
\* what the command line says, read off argv
Parsed == parsed

\* an invocation is under way or has ended
Launched == phase # "idle"

\* the command line asks for a web search: the search flag, or a URL hint
SearchRequested ==
    /\ Parsed.error = NoError
    /\ Parsed.options.search \/ Parsed.options.url # <<>>

\* the command line asks for the help text or the version
InfoRequested ==
    /\ Parsed.error = NoError
    /\ Parsed.options.help \/ Parsed.options.version

\* the requests of this invocation that went to a provider
CallsTo(provider) == SelectSeq(calls, LAMBDA c : c.provider = provider)

\* the rows that this invocation added to the messages table
NewMessages ==
    IF Len(db.messages) >= Len(db0.messages)
    THEN SubSeq(db.messages, Len(db0.messages) + 1, Len(db.messages))
    ELSE <<>>

\* the messages of conversation id in a store, in stored order
MessagesOf(d, id) == SelectSeq(d.messages, LAMBDA m : m.conversationId = id)

\* sub occurs in text as a contiguous piece
Infix(sub, text) ==
    \/ sub = <<>>
    \/ \E i \in 0..(Len(text) - Len(sub)) :
          /\ text[i + 1] = sub[1]
          /\ SubSeq(text, i + 1, i + Len(sub)) = sub

\* C11: an invocation in web-search mode (search flag set, or URL hint
\* given) calls no function of the conversation store and leaves the store
\* as it found it.
C11_SearchLeavesStoreAlone ==
    (Launched /\ SearchRequested) => (storeOps = <<>> /\ db = db0)

\* a web search that was answered while the store held a conversation
C11_Witness ==
    /\ phase = "exit"
    /\ SearchRequested
    /\ CallsTo("perplexity") # <<>>
    /\ error = NoError
    /\ db0.messages # <<>>

\* the prompt that a web search is to send for the parsed command line
ExpectedSearchPrompt ==
    IF Parsed.options.url = <<>> \/ Parsed.options.url = Undefined
    THEN Parsed.prompt
    ELSE Parsed.prompt \o INURL \o Parsed.options.url

\* C12: in web-search mode the prompt sent to the provider carries no
\* history; it is exactly the prompt of the user when the URL hint is empty
\* or was given without a value, and exactly the prompt followed by
\* " inurl:" and the hint when the hint is a non-empty text.
C12_SearchPromptIsPromptAndHint ==
    \A i \in 1..Len(calls) :
        calls[i].provider = "perplexity" => calls[i].prompt = ExpectedSearchPrompt

\* the messages of the active conversation that precede the new user turn:
\* those the invocation found, and the system message if it opened the
\* conversation
EarlierMessages ==
    MessagesOf(db0, conversationId)
    \o SelectSeq(NewMessages,
                 LAMBDA m : m.conversationId = conversationId /\ m.role = "system")

\* the prompt that the general assistant is to receive
ExpectedFullPrompt ==
    RenderHistory(EarlierMessages) \o TURN_SEPARATOR
    \o RoleText("user") \o <<":", SPACE>> \o Parsed.prompt \o ASSISTANT_CUE

\* C13: in general-assistant mode with an active conversation, the prompt
\* sent to the provider is the earlier messages of the conversation, each
\* as role: content, in stored order, then the new user turn exactly once,
\* then the trailing assistant: cue.
C13_FullPromptHasUserTurnOnce ==
    \A i \in 1..Len(calls) :
        (calls[i].provider = "anthropic" /\ conversationId # NoConv)
            => calls[i].prompt = ExpectedFullPrompt

\* the assistant messages that this invocation stored
NewAssistantMessages == SelectSeq(NewMessages, LAMBDA m : m.role = "assistant")

\* this invocation stored the user turn in its conversation
UserTurnSaved ==
    \E i \in 1..Len(NewMessages) :
        /\ NewMessages[i].role = "user"
        /\ NewMessages[i].content = Parsed.prompt
        /\ NewMessages[i].conversationId = conversationId

\* the last fragment of the response was consumed and printStream returned
StreamEnded == pc = "done" /\ received = input

\* C14: in general-assistant mode the user turn is in the store before the
\* provider is called; the response of the assistant is stored only after
\* the stream has ended, as exactly one message whose content is the full
\* text of the response, and no assistant message is stored before the last
\* fragment was consumed.
C14_TurnsPersistedAroundTheStream ==
    /\ (CallsTo("anthropic") # <<>> /\ conversationId # NoConv) => UserTurnSaved
    /\ NewAssistantMessages # <<>> => StreamEnded
    /\ (phase = "exit" /\ error = NoError /\ CallsTo("anthropic") # <<>>)
          => /\ Len(NewAssistantMessages) = 1
             /\ NewAssistantMessages[1].content = input
             /\ NewAssistantMessages[1].conversationId = conversationId

\* the ids of the conversations in a store
ConversationIds(d) == {d.conversations[i].id : i \in 1..Len(d.conversations)}

\* the conversation that the pointer row of a store names
PointerOf(d) ==
    IF d.current = <<>> THEN NoConv ELSE d.current[Len(d.current)].conversationId

\* the active conversation was created by this invocation
IsFresh ==
    /\ conversationId \notin ConversationIds(db0)
    /\ conversationId \in ConversationIds(db)

\* the conversation handling of this invocation is over
PastSelect ==
    \/ phase \in {"generate", "request", "response", "stream"}
    \/ calls # <<>>

\* C15: in general-assistant mode the conversation is chosen like this: with
\* the new flag a fresh conversation; otherwise the conversation the pointer
\* names, if it exists; otherwise a fresh conversation.  An existing
\* conversation is never replaced when the flag is unset and the pointer
\* names it.
C15_ConversationSelection ==
    (PastSelect /\ ~SearchRequested) =>
        /\ conversationId # NoConv
        /\ IF Parsed.options.new THEN IsFresh
           ELSE IF PointerOf(db0) # NoConv /\ PointerOf(db0) \in ConversationIds(db0)
           THEN conversationId = PointerOf(db0)
           ELSE IsFresh

\* the pointer conversation was continued although the store holds another
\* conversation as well
C15_Witness ==
    /\ phase = "exit"
    /\ ~SearchRequested
    /\ ~Parsed.options.new
    /\ calls # <<>>
    /\ Len(db0.conversations) = 2
    /\ conversationId = PointerOf(db0)

\* C16: after a general-assistant invocation has used conversation C, the
\* next general-assistant invocation without the new flag uses C again, and
\* its prompt contains every message that earlier invocations stored in C,
\* whatever web-search invocations ran in between.
C16_ConversationResumedWithHistory ==
    (PastSelect /\ ~SearchRequested /\ ~Parsed.options.new /\ lastConv # NoConv) =>
        /\ conversationId = lastConv
        /\ \A i \in 1..Len(calls) :
              \A k \in 1..Len(db0.messages) :
                  db0.messages[k].conversationId = lastConv
                      => Infix(RenderMessage(db0.messages[k]), calls[i].prompt)

\* a conversation was resumed after a web search had run in between
C16_Witness ==
    /\ phase = "exit"
    /\ searchedSince
    /\ ~SearchRequested
    /\ ~Parsed.options.new
    /\ lastConv # NoConv
    /\ conversationId = lastConv
    /\ CallsTo("anthropic") # <<>>
    /\ Len(MessagesOf(db0, lastConv)) >= 3

\* the credential of the provider that the command line selects is not set
CredentialMissing ==
    /\ Parsed.error = NoError
    /\ ~InfoRequested
    /\ IF SearchRequested THEN ~env.PERPLEXITY_API_KEY
       ELSE ~env.ANTHROPIC_API_KEY

\* C17: when the credential of the selected provider is missing, the
\* invocation ends in an error, no provider is called and nothing is
\* written to the store.
C17_MissingCredentialStopsEarly ==
    (Launched /\ CredentialMissing) =>
        /\ calls = <<>>
        /\ db = db0
        /\ phase \in {"threw", "exit"} => error # NoError
        /\ phase # "returned"

\* a web search without the Perplexity credential, on a store with content
C17_Witness ==
    /\ phase = "exit"
    /\ SearchRequested
    /\ env.ANTHROPIC_API_KEY
    /\ ~env.PERPLEXITY_API_KEY
    /\ error = "PERPLEXITY_API_KEY must be set"
    /\ db0.messages # <<>>

\* C18: every fatal error (missing credential, usage error, response
\* without success or without body, storage failure) ends the process with
\* a non-zero exit status; a response that was handled ends it with 0.
C18_ExitStatusTellsFailure ==
    phase = "exit" => (exitStatus = 0 <=> error = NoError)

\* C19: with the help flag the help text is printed, and else with the
\* version flag the version; no provider is called, the store is not
\* touched and the exit status is 0, whatever the prompt and whichever
\* credentials are set.
C19_HelpAndVersionAlwaysWork ==
    (phase = "exit" /\ InfoRequested) =>
        /\ console = IF Parsed.options.help THEN <<"HELP_MESSAGE">>
                     ELSE <<"version">>
        /\ calls = <<>>
        /\ storeOps = <<>>
        /\ db = db0
        /\ exitStatus = 0

\* an argument that is a flag the option table does not know
UnknownFlag(arg) ==
    /\ StartsWith(arg, <<DASH>>)
    /\ LET name == StripDashes(SplitOn(arg, EQUALS)[1])
       IN  \A i \in 1..Len(OPTIONS_CONFIG) :
              name # OPTIONS_CONFIG[i].key /\ name # OPTIONS_CONFIG[i].short

\* a usage error: an unknown flag, or no prompt where one is needed
UsageError ==
    \/ \E i \in 1..Len(argv) : UnknownFlag(argv[i])
    \/ Parsed.error = NoError /\ ~InfoRequested /\ Parsed.prompt = <<>>

\* C20: a usage error (empty prompt, unknown flag) ends the invocation with
\* an error before any provider is called and before the store is read or
\* written.
C20_UsageErrorStopsEarly ==
    (Launched /\ UsageError) =>
        /\ calls = <<>>
        /\ storeOps = <<>>
        /\ db = db0
        /\ phase \in {"start", "threw", "exit"}
        /\ phase \in {"threw", "exit"} => error # NoError

\* the prompt was found missing with the credential set and a store with
\* content
C20_Witness ==
    /\ phase = "exit"
    /\ argv = <<>>
    /\ env.ANTHROPIC_API_KEY
    /\ error = "prompt is required"
    /\ db0.messages # <<>>

\* the provider answered without success or without a body
ResponseFailed == response \in {"notok", "nobody"}

\* the rows of one table are still there, in place, after more were added
IsPrefix(old, new) == Len(old) <= Len(new) /\ SubSeq(new, 1, Len(old)) = old

\* the newest message of conversation id in store d is a user turn
DanglingTurn(d, id) ==
    /\ MessagesOf(d, id) # <<>>
    /\ MessagesOf(d, id)[Len(MessagesOf(d, id))].role = "user"

\* C21: when the response of the provider is without success or without
\* body in general-assistant mode, the invocation ends in an error, the user
\* message it stored stays in the conversation, no assistant message is
\* stored for the turn, nothing is rolled back and the request is not sent
\* again; the next invocation continues the same conversation with the
\* dangling user turn in its history.
C21_FailedResponseLeavesDanglingTurn ==
    /\ (phase \in {"threw", "exit"} /\ ~SearchRequested /\ ResponseFailed) =>
          /\ error # NoError
          /\ UserTurnSaved
          /\ NewAssistantMessages = <<>>
          /\ Len(calls) = 1
          /\ IsPrefix(db0.messages, db.messages)
    /\ (/\ PastSelect
        /\ ~SearchRequested
        /\ ~Parsed.options.new
        /\ lastConv # NoConv
        /\ DanglingTurn(db0, lastConv)) =>
          /\ conversationId = lastConv
          /\ \A i \in 1..Len(calls) :
                Infix(RenderMessage(
                          MessagesOf(db0, lastConv)[Len(MessagesOf(db0, lastConv))]),
                      calls[i].prompt)

\* a conversation with a dangling user turn was continued after the
\* invocation before it had failed at the response
C21_Witness ==
    /\ phase = "exit"
    /\ ResponseFailed
    /\ ~SearchRequested
    /\ ~Parsed.options.new
    /\ lastConv # NoConv
    /\ DanglingTurn(db0, lastConv)
    /\ conversationId = lastConv
    /\ error # NoError

\* the store cannot be initialised: no home directory, or a data directory
\* in which the database file cannot be created or opened
StoreUnavailable == ~env.HOME \/ env.DATA_DIR = "unusable"

\* the command line asks the general assistant a question
GeneralRequested ==
    /\ Parsed.error = NoError
    /\ ~InfoRequested
    /\ ~SearchRequested

\* C22: in general-assistant mode, when the conversation store cannot be
\* initialised, the invocation ends in an error and no provider is called.
C22_StoreUnavailableIsFatal ==
    (Launched /\ GeneralRequested /\ StoreUnavailable) =>
        /\ calls = <<>>
        /\ db = db0
        /\ phase \in {"start", "select", "threw", "exit"}
        /\ phase \in {"threw", "exit"} => error # NoError

\* a question to the general assistant failed at the store although the
\* home directory and the credential were there
C22_Witness ==
    /\ phase = "exit"
    /\ argv = <<WORD>>
    /\ env.ANTHROPIC_API_KEY
    /\ env.HOME
    /\ env.DATA_DIR = "unusable"
    /\ storeOps = <<"getCurrentConversationId">>
    /\ error = STORE_ERROR

(***************************************************************************)
(* getDb step by step, src/unnamed/part_002 lines 26-44.  mkdir comes from *)
(* fs/promises: the call of line 36 starts the creation of the directory   *)
(* and returns a promise that nobody awaits, so the directory appears at   *)
(* some later time, before or after the Database constructor of line 44    *)
(* runs.                                                                   *)
(***************************************************************************)
MaxOpens == 3

\* the exported functions of the store; each begins with getDb
StoreFunctions == {"saveMessage", "getCurrentConversationId", "getConversation"}

InitOpen ==
    /\ dataDir \in {"missing", "present"}
    /\ mkdirs = 0
    /\ opening = "idle"
    /\ opens = <<>>
    /\ env \in [ANTHROPIC_API_KEY : {TRUE}, PERPLEXITY_API_KEY : {TRUE},
                HOME : BOOLEAN, DATA_DIR : {"usable"}]
    /\ db = EmptyDb
    /\ db0 = EmptyDb
    /\ now = 0
    /\ argv = <<>>
    /\ parsed = [prompt |-> <<>>, options |-> DefaultOptions, error |-> NoError]
    /\ phase = "select"
    /\ options = DefaultOptions
    /\ prompt = <<>>
    /\ conversationId = NoConv
    /\ calls = <<>>
    /\ storeOps = <<>>
    /\ console = <<>>
    /\ response = "none"
    /\ error = NoError
    /\ exitStatus = -1
    /\ invocations = 0
    /\ lastConv = NoConv
    /\ searchedSince = FALSE
    /\ clean = TRUE
    /\ NoStoreCalls
    /\ input = <<>>
    /\ received = <<>>
    /\ nfrags = 0
    /\ cutInMarker = FALSE
    /\ buffer = <<>>
    /\ fullResponse = <<>>
    /\ writes = <<>>
    /\ spans = <<>>
    /\ off = 0
    /\ pc = "reading"

\* everything but the directory, the getDb calls and what they leave behind
besideOpen ==
    <<db, db0, now, argv, parsed, phase, options, prompt, conversationId, calls,
      console, response, exitStatus, invocations, lastConv, searchedSince,
      clean, env, streamVars, storeVars>>

\* what is kept of a getDb call: whether it found the directory missing and
\* whether it returned a database
Opened(missing, ok) == [missing |-> missing, ok |-> ok]

\* a store function is called and enters getDb, lines 43-44; without a home
\* directory getDatabasePath throws, lines 27-30
EnterGetDb(f) ==
    /\ opening = "idle"
    /\ Len(opens) < MaxOpens
    /\ storeOps' = Append(storeOps, f)
    /\ IF env.HOME
       THEN /\ opening' = "path"
            /\ UNCHANGED <<opens, error>>
       ELSE /\ opening' = "idle"
            /\ opens' = Append(opens, Opened(FALSE, FALSE))
            /\ error' = STORE_ERROR
    /\ UNCHANGED <<dataDir, mkdirs, besideOpen>>

\* lines 32-39: the directory is looked for and mkdir is started when it is
\* not there
CheckDirectory ==
    /\ opening = "path"
    /\ mkdirs' = IF dataDir = "missing" THEN mkdirs + 1 ELSE mkdirs
    /\ opening' = IF dataDir = "missing" THEN "open first" ELSE "open"
    /\ UNCHANGED <<dataDir, opens, storeOps, error, besideOpen>>

\* a mkdir that was started completes
MkdirCompletes ==
    /\ mkdirs > 0
    /\ mkdirs' = mkdirs - 1
    /\ dataDir' = "present"
    /\ UNCHANGED <<opening, opens, storeOps, error, besideOpen>>

\* line 44: the constructor creates the file but not the directory above it
OpenFails(dir) == dir = "missing"

\* line 44: new Database(path)
OpenDatabase ==
    /\ opening \in {"open", "open first"}
    /\ opens' = Append(opens, Opened(opening = "open first", ~OpenFails(dataDir)))
    /\ error' = IF OpenFails(dataDir) THEN STORE_ERROR ELSE error
    /\ opening' = "idle"
    /\ UNCHANGED <<dataDir, mkdirs, storeOps, besideOpen>>

NextOpen ==
    \/ \E f \in StoreFunctions : EnterGetDb(f)
    \/ CheckDirectory
    \/ MkdirCompletes
    \/ OpenDatabase

SpecOpen == InitOpen /\ [][NextOpen]_vars

(***************************************************************************)
(* parseArgs on its own, src/args.ts:95-101, over command lines put        *)
(* together from a pool of arguments.                                      *)
(***************************************************************************)
MaxArgs == 3

\* the arguments a command line is made of: words, an empty argument, a
\* word with a blank in it, flags, an option with a value, with a value that
\* holds an equals sign and without a value, a lone dash, a flag that is not
\* configured
ArgPool ==
    {WORD, <<"a">>, <<>>, <<"a", " ", "b">>,
     <<"-", "n">>, <<"-", "-", "u", "r", "l", "=", "x">>,
     <<"-", "-", "u", "r", "l", "=", "a", "=", "b">>, <<"-", "u">>, <<"-">>,
     <<"-", "x">>}

\* the command lines of n arguments
RECURSIVE ArgLists(_)
ArgLists(n) ==
    IF n = 0 THEN {<<>>}
    ELSE {<<>>} \cup {<<a>> \o rest : a \in ArgPool, rest \in ArgLists(n - 1)}

InitArgs ==
    /\ argv \in ArgLists(MaxArgs)
    /\ phase = "args"
    /\ parsed = parseArgs(<<>>)
    /\ env = [ANTHROPIC_API_KEY |-> TRUE, PERPLEXITY_API_KEY |-> TRUE,
              HOME |-> TRUE, DATA_DIR |-> "usable"]
    /\ db = EmptyDb
    /\ db0 = EmptyDb
    /\ now = 0
    /\ options = DefaultOptions
    /\ prompt = <<>>
    /\ conversationId = NoConv
    /\ calls = <<>>
    /\ storeOps = <<>>
    /\ console = <<>>
    /\ response = "none"
    /\ error = NoError
    /\ exitStatus = -1
    /\ invocations = 0
    /\ lastConv = NoConv
    /\ searchedSince = FALSE
    /\ clean = TRUE
    /\ NoStoreCalls
    /\ DirectoryReady
    /\ input = <<>>
    /\ received = <<>>
    /\ nfrags = 0
    /\ cutInMarker = FALSE
    /\ buffer = <<>>
    /\ fullResponse = <<>>
    /\ writes = <<>>
    /\ spans = <<>>
    /\ off = 0
    /\ pc = "reading"

\* parseArgs is called with the command line
ParseArgv ==
    /\ phase = "args"
    /\ parsed' = parseArgs(argv)
    /\ phase' = "parsed"
    /\ UNCHANGED <<env, db, db0, now, argv, options, prompt, conversationId,
                   calls, storeOps, console, response, error, exitStatus,
                   invocations, lastConv, searchedSince, clean>>
    /\ UNCHANGED <<streamVars, storeVars, fsVars>>

NextArgs == ParseArgv

SpecArgs == InitArgs /\ [][NextArgs]_vars

\* the texts of parts with one blank between each two
RECURSIVE Spaced(_)
Spaced(parts) ==
    IF parts = <<>> THEN <<>>
    ELSE IF Len(parts) = 1 THEN parts[1]
    ELSE parts[1] \o <<" ">> \o Spaced(Tail(parts))

\* an argument that is not empty and does not begin with a dash
Positional(a) == a # <<>> /\ a[1] # "-"

\* parseArgs has returned
ArgsParsed == phase = "parsed" /\ parsed.error = NoError

\* C29: the prompt that parseArgs returns is the arguments that are not
\* empty and do not begin with a dash, in their order, with one blank
\* between each two; arguments that are options add nothing to it.
C29_PromptIsThePositionalArguments ==
    ArgsParsed => parsed.prompt = Spaced(SelectSeq(argv, Positional))

\* a command line that begins and ends with a word and has an option
\* in between
C29_Witness ==
    /\ ArgsParsed
    /\ Len(SelectSeq(argv, Positional)) = 2
    /\ \E i \in 1..Len(argv) : argv[i] # <<>> /\ argv[i][1] = "-"
    /\ Len(argv[1]) > 0 /\ argv[1][1] # "-"
    /\ Len(argv[Len(argv)]) > 0 /\ argv[Len(argv)][1] # "-"

(***************************************************************************)
(* The store, statement by statement.                                      *)
(***************************************************************************)
\* C23: in every state of the store, the states between the DELETE and the
\* INSERT of setCurrentConversation included, the current_conversation
\* table holds no row or one row, however many saveMessage calls were made.
C23_AtMostOnePointerRow == Len(db.current) <= 1

\* a process stands before its INSERT after a call has ended, and the table
\* holds the row that another process has put there since the DELETE
C23_Witness ==
    /\ ended >= 1
    /\ \E p \in Procs : callers[p].pc = "insert" /\ Len(db.current) = 1

\* every pointer row and every message of store d names a conversation of d
Referential(d) ==
    /\ \A i \in 1..Len(d.current) : d.current[i].conversationId \in ConversationIds(d)
    /\ \A i \in 1..Len(d.messages) : d.messages[i].conversationId \in ConversationIds(d)

\* a saveMessage call has returned and no call has overlapped another
ReturnedAlone == ended >= 1 /\ lastCall.ok /\ solo

\* C24: after a saveMessage call that has returned, whatever conversationId
\* it was given, the store holds exactly one pointer row, the pointer names
\* a conversation of the conversations table, and so does every message.
C24_PointerAndMessagesReferToConversations ==
    ReturnedAlone =>
        /\ Len(lastCall.after.current) = 1
        /\ Referential(lastCall.after)

\* the message that the call that ended last has stored
StoredMessage == lastCall.after.messages[Len(lastCall.after.messages)]

\* the call that ended last has added one message, which is as it was given
\* and belongs to conversation id
AppendedTo(id) ==
    /\ Len(lastCall.after.messages) = Len(lastCall.before.messages) + 1
    /\ IsPrefix(lastCall.before.messages, lastCall.after.messages)
    /\ StoredMessage.conversationId = id
    /\ StoredMessage.role = lastCall.o.role
    /\ StoredMessage.content = lastCall.o.content

\* the call that ended last was asked for a new conversation, or given none
AskedForNew ==
    lastCall.o.createNewConversation \/ lastCall.o.conversationId = NoConv

\* C25: saveMessage creates a conversation exactly when
\* createNewConversation is set or no conversationId is given; the new id
\* then differs from every id there was, a conversationId that was given is
\* ignored, and the message goes to the new conversation.  Otherwise no
\* conversation is created and the message goes to the conversation that was
\* given.  Either way the id returned is the id the message was stored under.
C25_ConversationCreatedWhenAskedOrMissing ==
    ReturnedAlone =>
        /\ AppendedTo(lastCall.id)
        /\ AskedForNew =>
              /\ ConversationIds(lastCall.after) =
                    ConversationIds(lastCall.before) \cup {lastCall.id}
              /\ lastCall.id \notin ConversationIds(lastCall.before)
              /\ lastCall.id # lastCall.o.conversationId
              /\ Len(lastCall.after.conversations) =
                    Len(lastCall.before.conversations) + 1
        /\ ~AskedForNew =>
              /\ Len(lastCall.after.conversations) =
                    Len(lastCall.before.conversations)
              /\ ConversationIds(lastCall.after) = ConversationIds(lastCall.before)
              /\ lastCall.id = lastCall.o.conversationId

\* a call with createNewConversation and the id of an existing conversation
\* has returned
C25_Witness ==
    /\ ReturnedAlone
    /\ lastCall.o.createNewConversation
    /\ lastCall.o.conversationId \in ConversationIds(lastCall.before)

\* no call is under way and no two calls have overlapped
Quiet == solo /\ Active = {}

\* C26: after any sequence of saveMessage calls getCurrentConversationId
\* returns the id that the most recent call returned, so after two calls
\* with createNewConversation the id of the second conversation; it returns
\* nothing exactly when saveMessage was never called.
C26_PointerFollowsLastSave ==
    Quiet =>
        /\ ended = 0 => getCurrentConversationId(db) = NoConv
        /\ ended > 0 =>
              /\ lastCall.ok
              /\ getCurrentConversationId(db) = lastCall.id
              /\ getCurrentConversationId(db) # NoConv

\* two calls with createNewConversation have returned, one after the other
C26_Witness ==
    /\ Quiet
    /\ ended = 2
    /\ lastCall.o.createNewConversation
    /\ Len(db.conversations) = 2
    /\ getCurrentConversationId(db) = db.conversations[2].id

\* C27: getConversation(id) returns the messages that were appended to
\* conversation id, with their roles and contents, in the order in which
\* they were appended, also when two of them carry the same createdAt.
C27_ReadBackInAppendOrder ==
    Quiet =>
        \A id \in ConversationIds(db) :
            \A result \in getConversation(db, id) : result = MessagesOf(db, id)

\* a step keeps every message as it is and every conversation but for its
\* updatedAt
KeepsWhatWasStored ==
    /\ IsPrefix(db.messages, db'.messages)
    /\ Len(db.conversations) <= Len(db'.conversations)
    /\ \A i \in 1..Len(db.conversations) :
          /\ db'.conversations[i].id = db.conversations[i].id
          /\ db'.conversations[i].createdAt = db.conversations[i].createdAt

\* C28: no operation deletes or changes a message or deletes a conversation:
\* every message and conversation that once existed is still there with its
\* id, role, content and createdAt; only the updatedAt of a conversation and
\* the pointer change.
C28_AppendOnly == [][KeepsWhatWasStored]_vars

\* a conversation with two messages whose updatedAt has moved on
C28_Witness ==
    \E i \in 1..Len(db.conversations) :
        /\ db.conversations[i].updatedAt > db.conversations[i].createdAt
        /\ Len(MessagesOf(db, db.conversations[i].id)) >= 2

\* C30: after each fragment the text that printStream keeps buffered is
\* empty or begins with a fence marker: the plain text before an opening
\* marker without its closing marker has been written, and only the rest
\* from that marker on is kept.
C30_BufferBeginsWithMarker ==
    (pc = "reading" /\ nfrags > 0) =>
        (buffer = <<>> \/ StartsWith(buffer, CODE_BLOCK_MD))

(***************************************************************************)
(* Sequences of invocations.                                               *)
(***************************************************************************)
\* ms is one system message, then user and assistant turns by turns, the
\* last one an assistant turn
SystemThenTurns(ms) ==
    /\ Len(ms) >= 3
    /\ Len(ms) % 2 = 1
    /\ \A i \in 1..Len(ms) :
          ms[i].role = IF i = 1 THEN "system"
                       ELSE IF i % 2 = 0 THEN "user" ELSE "assistant"

\* this invocation and all before it have ended, in general mode and
\* without an error
AllCompleted == phase = "exit" /\ clean /\ CompletedInGeneralMode

\* C31: after a sequence of general-assistant invocations that all completed,
\* the messages of every conversation are, in insertion order, one system
\* message followed by user and assistant messages by turns, ending with an
\* assistant message; an invocation with a new conversation has added three
\* messages and one that continued a conversation two.
C31_SystemThenAlternatingTurns ==
    AllCompleted =>
        /\ \A id \in ConversationIds(db) : SystemThenTurns(MessagesOf(db, id))
        /\ Len(NewMessages) = IF IsFresh THEN 3 ELSE 2

\* the second turn of a conversation has been completed
C31_Witness ==
    /\ AllCompleted
    /\ ~IsFresh
    /\ Len(MessagesOf(db, conversationId)) = 5

(***************************************************************************)
(* The scan loop, iteration by iteration.                                  *)
(***************************************************************************)
\* a marker begins at index i of text b, counted from 0
MarkerAt(b, i) ==
    /\ i + Len(CODE_BLOCK_MD) <= Len(b)
    /\ SubSeq(b, i + 1, i + Len(CODE_BLOCK_MD)) = CODE_BLOCK_MD

\* b holds a marker and after it a second one that does not overlap it
HasMarkerPair(b) ==
    \E i \in 0..Len(b) : \E j \in 0..Len(b) :
        /\ MarkerAt(b, i)
        /\ MarkerAt(b, j)
        /\ j >= i + Len(CODE_BLOCK_MD)

\* an iteration that goes round again has shortened the buffer by the two
\* markers at least
ScanShortens ==
    (pc = "scanning" /\ pc' = "scanning") =>
        Len(buffer') + 2 * Len(CODE_BLOCK_MD) <= Len(buffer)

\* the iterations of the loop that have cut a block off, two writes each
IterationsDone == Len(writes) \div 2

\* C32: the inner scan loop of printStream ends for every buffer: each
\* iteration leaves the loop because no closing marker is found, or shortens
\* the buffer by the two markers it consumed at least; and when the loop is
\* left the buffer holds no marker followed by a second marker that does
\* not overlap it.  Ending is stated through the length of the buffer: the
\* iterations made so far have each taken two markers off a buffer that
\* was finite when the loop was entered.
C32_ScanLoopTerminates ==
    /\ [][ScanShortens]_vars
    /\ [](IterationsDone * 2 * Len(CODE_BLOCK_MD) + Len(buffer) <= Len(input))
    /\ [](pc = "scanned" => ~HasMarkerPair(buffer))

\* the loop was left after two iterations
C32_Witness == pc = "scanned" /\ Len(writes) = 4

(***************************************************************************)
(* Credentials.                                                            *)
(***************************************************************************)
\* the invocation has ended and its command line asks for an answer
AnswerWanted ==
    /\ phase = "exit"
    /\ Parsed.error = NoError
    /\ ~InfoRequested
    /\ Parsed.prompt # <<>>

\* C33: an invocation needs the credential of the provider of its mode and
\* no other: a web search with PERPLEXITY_API_KEY set reaches its provider
\* call also when ANTHROPIC_API_KEY is not set, and a general-assistant
\* invocation reaches its provider call whether PERPLEXITY_API_KEY is set or
\* not.
C33_OnlyTheCredentialOfTheMode ==
    /\ (AnswerWanted /\ SearchRequested /\ env.PERPLEXITY_API_KEY) =>
          CallsTo("perplexity") # <<>>
    /\ (AnswerWanted /\ ~SearchRequested /\ env.ANTHROPIC_API_KEY
            /\ ~StoreUnavailable) =>
          CallsTo("anthropic") # <<>>

(***************************************************************************)
(* The data directory.                                                     *)
(***************************************************************************)
\* C34: on a first run, where the data directory does not exist, the
\* directory has been created before the database file in it is opened: the
\* creation that getDatabasePath starts completes before getDb opens the
\* database, however the two are scheduled.
C34_DirectoryCreatedBeforeOpen ==
    \A i \in 1..Len(opens) : opens[i].missing => opens[i].ok

(***************************************************************************)
(* Failing statements and overlapping calls.                               *)
(***************************************************************************)
\* a saveMessage call has thrown and no call has overlapped another
ThrewAlone == ended >= 1 /\ ~lastCall.ok /\ solo

\* C35: saveMessage is all or nothing: when one of its statements fails,
\* the conversations, the messages and the pointer are left as they were
\* before the call.
C35_SaveMessageAllOrNothing ==
    ThrewAlone => lastCall.after = lastCall.before

\* the message of the call that ended last is in the store, in the
\* conversation the call was made for
MessagePersisted ==
    \E i \in 1..Len(db.messages) :
        /\ db.messages[i].conversationId = lastCall.id
        /\ db.messages[i].role = lastCall.o.role
        /\ db.messages[i].content = lastCall.o.content
        /\ db.messages[i].createdAt = lastCall.at

\* C36: when two invocations run at the same time on one store, then
\* however their store statements interleave every saveMessage call
\* returns without an error and the message it was given is stored in the
\* conversation of its invocation; no message is lost.
C36_OverlappingCallsAllSucceed ==
    ended >= 1 => (lastCall.ok /\ MessagePersisted)

(***************************************************************************)
(* Options with a value.                                                   *)
(***************************************************************************)
\* where the first equals sign of argument a stands, 0 when it has none
FirstEquals(a) ==
    IF \E k \in 1..Len(a) : a[k] = "="
    THEN CHOOSE k \in 1..Len(a) : a[k] = "=" /\ \A j \in 1..(k - 1) : a[j] # "="
    ELSE 0

\* the name argument a gives, with its dashes
NameOf(a) == IF FirstEquals(a) = 0 THEN a ELSE SubSeq(a, 1, FirstEquals(a) - 1)

\* argument a gives the url option, by its name or by its short name
GivesUrl(a) == NameOf(a) \in {<<"-", "-", "u", "r", "l">>, <<"-", "u">>}

\* the value the url option is to have after the command line args: of the
\* last argument that gives it with a value the whole text after the first
\* equals sign, and the configured default when the last argument that
\* gives it has no value or no argument gives it
UrlWanted(args) ==
    IF \E i \in 1..Len(args) : GivesUrl(args[i])
    THEN LET a == args[Max({i \in 1..Len(args) : GivesUrl(args[i])})]
         IN  IF FirstEquals(a) = 0 THEN DefaultOptions.url
             ELSE SubSeq(a, FirstEquals(a) + 1, Len(a))
    ELSE DefaultOptions.url

\* C37: for a string option given as --name=value parseArgs stores the
\* whole text after the first equals sign as its value, also when that text
\* holds an equals sign; an option given without a value, or not given,
\* keeps its configured default.
C37_ValueIsTheTextAfterTheFirstEquals ==
    ArgsParsed => parsed.options.url = UrlWanted(argv)

====
